---------------------------- MODULE Spec2Model ----------------------------
(***************************************************************************)
(* A model of the xf86-input-libinput driver (src/src/libinput.c): the     *)
(* option resolver, the configuration applier, the property bridge, the    *)
(* event translator and the device lifecycle.                              *)
(*                                                                         *)
(* Numbers that are floats in the driver (acceleration speed, calibration  *)
(* matrix) are kept in fixed point, in halves: 2 is 1.0, 1 is 0.5.  Every  *)
(* such value is exactly representable as a C float, so that the           *)
(* double-to-float stores of the driver do not change it.                  *)
(*                                                                         *)
(* Strings the driver compares (option texts) are sequences of one-letter  *)
(* strings, so that strcmp and strncasecmp are computed, not assumed.      *)
(***************************************************************************)
EXTENDS Integers, Sequences, FiniteSets, TLC

(***************************************************************************)
(* Bounds of the model                                                     *)
(***************************************************************************)
MaxQueue == 2          \* events the event source queues between two dispatches
MaxTouchId == 2        \* touch-downs handled in one behaviour
MaxWrites == 2         \* property requests made in one behaviour
MaxBindings == 2       \* bindings the Device Registry holds at once
MaxContextRefs == 2    \* references on the context at which opens stop failing
MaxMapLen == 4         \* characters of a ButtonMapping text

(***************************************************************************)
(* Program constants                                                       *)
(***************************************************************************)
TOUCH_MAX_SLOTS == 15
XORG_KEYCODE_OFFSET == 8
MAX_BUTTONS == 256
\* driver_data->scroll.vdist = 15, driver_data->scroll.hdist = 15
SCROLL_DIST == 15
INT32_MAX == 2147483647

\* linux/input.h button codes, as used by btn_linux2xorg / btn_xorg2linux
BTN_LEFT == 272
BTN_RIGHT == 273
BTN_MIDDLE == 274
BTN_SIDE == 275
BTN_EXTRA == 276

\* enum libinput_config_send_events_mode
LIBINPUT_CONFIG_SEND_EVENTS_ENABLED == 0
LIBINPUT_CONFIG_SEND_EVENTS_DISABLED == 1
LIBINPUT_CONFIG_SEND_EVENTS_DISABLED_ON_EXTERNAL_MOUSE == 2

\* enum libinput_config_scroll_method
LIBINPUT_CONFIG_SCROLL_NO_SCROLL == 0
LIBINPUT_CONFIG_SCROLL_2FG == 1
LIBINPUT_CONFIG_SCROLL_EDGE == 2
LIBINPUT_CONFIG_SCROLL_ON_BUTTON_DOWN == 4

\* enum libinput_config_click_method
LIBINPUT_CONFIG_CLICK_METHOD_NONE == 0
LIBINPUT_CONFIG_CLICK_METHOD_BUTTON_AREAS == 1
LIBINPUT_CONFIG_CLICK_METHOD_CLICKFINGER == 2

\* X protocol result codes
Success == 0
BadValue == 2
BadMatch == 8
BadAccess == 10

(***************************************************************************)
(* Bit arithmetic on the small masks the driver uses                       *)
(***************************************************************************)
Pow2(i) == IF i = 0 THEN 1 ELSE IF i = 1 THEN 2 ELSE IF i = 2 THEN 4 ELSE 8

Bits(n) == {i \in 0..3 : (n \div Pow2(i)) % 2 = 1}

RECURSIVE SumPow(_)
SumPow(S) == IF S = {} THEN 0
             ELSE LET i == CHOOSE x \in S : TRUE
                  IN Pow2(i) + SumPow(S \ {i})

BitAnd(a, b) == SumPow(Bits(a) \cap Bits(b))
BitOr(a, b) == SumPow(Bits(a) \cup Bits(b))

\* __builtin_popcount, and the same counting no bit
PopcountNone(n) == 0

Popcount(n) == Cardinality(Bits(n))

\* unsigned int arithmetic.  An unsigned int u is kept as the integer of
\* -2^31 .. 2^31 - 1 that is congruent to u modulo 2^32 (TLC's integers are
\* 32 bits wide): equal representatives are equal unsigned ints, and a sum
\* or difference that stays in that range is the representative of the C
\* result.  U32Succ is u + 1 with the wrap from 2^31 - 1 to 2^31.
U32Succ(n) == IF n = INT32_MAX THEN (-INT32_MAX) - 1 ELSE n + 1

(***************************************************************************)
(* Strings as sequences of letters                                         *)
(***************************************************************************)
ToLower(c) ==
    CASE c = "B" -> "b" [] c = "E" -> "e" [] c = "N" -> "n" [] c = "T" -> "t"
      [] c = "C" -> "c" [] OTHER -> c

\* strncasecmp(s, lit, n) == 0 where n = strlen(lit): s starts with lit
StrNCaseEq(s, lit) ==
    /\ Len(s) >= Len(lit)
    /\ \A i \in 1..Len(lit) : ToLower(s[i]) = ToLower(lit[i])

S_twofinger == <<"t","w","o","f","i","n","g","e","r">>
S_edge == <<"e","d","g","e">>
S_button == <<"b","u","t","t","o","n">>
S_none == <<"n","o","n","e">>
S_buttonareas == <<"b","u","t","t","o","n","a","r","e","a","s">>
S_clickfinger == <<"c","l","i","c","k","f","i","n","g","e","r">>
S_enabled == <<"e","n","a","b","l","e","d">>
S_disabled == <<"d","i","s","a","b","l","e","d">>
S_disabled_ext == <<"d","i","s","a","b","l","e","d","-","o","n","-",
                    "e","x","t","e","r","n","a","l","-","m","o","u","s","e">>
S_bogus == <<"w","h","e","e","l">>
S_Edge == <<"E","d","g","e">>


(***************************************************************************)
(* The device abstraction (libinput), as the driver sees it.               *)
(*                                                                         *)
(* A physical device is described by its capabilities, the configuration   *)
(* a fresh handle starts with, the buttons it has and the options whose    *)
(* setter it refuses.  A handle holds the live configuration.              *)
(***************************************************************************)
Identity6 == <<2, 0, 0, 0, 2, 0>>
Identity9 == <<2, 0, 0, 0, 2, 0, 0, 0, 2>>

OptNames == {"tap", "drag_lock", "speed", "natscroll", "sendevents", "left",
             "scroll_method", "scroll_button", "click_method", "middle",
             "halfkey", "matrix"}

BaseConfig ==
    [tap |-> 0, drag_lock |-> 0, speed |-> 0, natscroll |-> 0,
     sendevents |-> LIBINPUT_CONFIG_SEND_EVENTS_ENABLED, left |-> 0,
     scroll_method |-> LIBINPUT_CONFIG_SCROLL_NO_SCROLL, scroll_button |-> 0,
     click_method |-> LIBINPUT_CONFIG_CLICK_METHOD_NONE, middle |-> 0,
     halfkey |-> 0, matrix |-> Identity6]

BareDevice ==
    [name |-> "bare", cap_pointer |-> FALSE, cap_keyboard |-> TRUE,
     cap_touch |-> FALSE, tap_fingers |-> 0, accel |-> FALSE,
     natscroll |-> FALSE, se_modes |-> 0, left |-> FALSE,
     scroll_methods |-> 0, click_methods |-> 0, middle |-> FALSE,
     halfkey |-> FALSE, calib |-> FALSE, buttons |-> {},
     dflt |-> BaseConfig, refuse |-> {}]

KeyboardDevice ==
    [BareDevice EXCEPT !.name = "keyboard", !.se_modes = 1, !.halfkey = TRUE]

TouchpadDevice ==
    [BareDevice EXCEPT !.name = "touchpad", !.cap_pointer = TRUE,
        !.cap_keyboard = FALSE, !.tap_fingers = 2, !.accel = TRUE,
        !.natscroll = TRUE, !.se_modes = 3, !.left = TRUE,
        !.scroll_methods = 3, !.click_methods = 3,
        !.buttons = {BTN_LEFT, BTN_RIGHT},
        !.dflt = [BaseConfig EXCEPT
                    !.scroll_method = LIBINPUT_CONFIG_SCROLL_2FG,
                    !.click_method = LIBINPUT_CONFIG_CLICK_METHOD_BUTTON_AREAS]]

MouseDevice ==
    [BareDevice EXCEPT !.name = "mouse", !.cap_pointer = TRUE,
        !.cap_keyboard = FALSE, !.accel = TRUE, !.natscroll = TRUE,
        !.se_modes = 1, !.left = TRUE, !.scroll_methods = 4,
        !.middle = TRUE,
        !.buttons = {BTN_LEFT, BTN_RIGHT, BTN_MIDDLE, BTN_SIDE, BTN_EXTRA},
        !.dflt = [BaseConfig EXCEPT
                    !.scroll_method = LIBINPUT_CONFIG_SCROLL_ON_BUTTON_DOWN,
                    !.scroll_button = BTN_MIDDLE]]

TouchscreenDevice ==
    [BareDevice EXCEPT !.name = "touchscreen", !.cap_keyboard = FALSE,
        !.cap_touch = TRUE, !.se_modes = 1, !.calib = TRUE]

TabletDevice ==
    [BareDevice EXCEPT !.name = "tablet", !.cap_pointer = TRUE,
        !.cap_keyboard = FALSE, !.se_modes = 1, !.left = TRUE,
        !.calib = TRUE, !.buttons = {BTN_LEFT},
        !.dflt = [BaseConfig EXCEPT !.matrix = <<1, 0, 0, 0, 1, 0>>]]

FullDevice ==
    [BareDevice EXCEPT !.name = "full", !.cap_pointer = TRUE,
        !.cap_touch = TRUE, !.tap_fingers = 1, !.accel = TRUE,
        !.natscroll = TRUE, !.se_modes = 3, !.left = TRUE,
        !.scroll_methods = 7, !.click_methods = 3, !.middle = TRUE,
        !.halfkey = TRUE, !.calib = TRUE,
        !.buttons = {BTN_LEFT, BTN_RIGHT, BTN_MIDDLE, BTN_SIDE},
        !.dflt = [BaseConfig EXCEPT
                    !.tap = 1, !.natscroll = 1, !.speed = 1,
                    !.scroll_method = LIBINPUT_CONFIG_SCROLL_EDGE,
                    !.scroll_button = BTN_RIGHT,
                    !.click_method = LIBINPUT_CONFIG_CLICK_METHOD_CLICKFINGER]]

Profiles == {BareDevice, KeyboardDevice, TouchpadDevice, MouseDevice,
             TouchscreenDevice, TabletDevice, FullDevice}

\* the same devices, each also with one option whose setter is refused
Refusing(P) == {[p EXCEPT !.refuse = {o}] : p \in P, o \in OptNames}

\* libinput_device_config_*_is_available / has_* / get_finger_count / get_methods
Supported(pd, opt) ==
    CASE opt \in {"tap", "drag_lock"} -> pd.tap_fingers > 0
      [] opt = "speed" -> pd.accel
      [] opt = "natscroll" -> pd.natscroll
      [] opt = "sendevents" ->
            pd.se_modes # LIBINPUT_CONFIG_SEND_EVENTS_ENABLED
      [] opt = "left" -> pd.left
      [] opt = "scroll_method" ->
            pd.scroll_methods # LIBINPUT_CONFIG_SCROLL_NO_SCROLL
      [] opt = "scroll_button" ->
            BitAnd(pd.scroll_methods,
                   LIBINPUT_CONFIG_SCROLL_ON_BUTTON_DOWN) # 0
      [] opt = "click_method" ->
            pd.click_methods # LIBINPUT_CONFIG_CLICK_METHOD_NONE
      [] opt = "middle" -> pd.middle
      [] opt = "halfkey" -> pd.halfkey
      [] opt = "matrix" -> pd.calib

\* the value is one the device's setter for opt takes
ValueOk(pd, opt, v) ==
    CASE opt \in {"tap", "drag_lock"} -> pd.tap_fingers > 0 /\ v \in {0, 1}
      [] opt = "speed" -> pd.accel /\ v >= -2 /\ v <= 2
      [] opt = "sendevents" -> BitAnd(pd.se_modes, v) = v
      [] opt = "scroll_method" ->
            /\ v \in {LIBINPUT_CONFIG_SCROLL_NO_SCROLL,
                      LIBINPUT_CONFIG_SCROLL_2FG,
                      LIBINPUT_CONFIG_SCROLL_EDGE,
                      LIBINPUT_CONFIG_SCROLL_ON_BUTTON_DOWN}
            /\ BitAnd(pd.scroll_methods, v) = v
      [] opt = "scroll_button" ->
            /\ Supported(pd, "scroll_button")
            /\ (v = 0 \/ v \in pd.buttons)
      [] opt = "click_method" ->
            /\ v \in {LIBINPUT_CONFIG_CLICK_METHOD_NONE,
                      LIBINPUT_CONFIG_CLICK_METHOD_BUTTON_AREAS,
                      LIBINPUT_CONFIG_CLICK_METHOD_CLICKFINGER}
            /\ BitAnd(pd.click_methods, v) = v
      [] OTHER -> Supported(pd, opt)

\* what the handle holds once the setter took v
Held(opt, v) ==
    IF opt \in {"natscroll", "left", "middle", "halfkey"}
    THEN (IF v # 0 THEN 1 ELSE 0)
    ELSE IF opt = "matrix" THEN SubSeq(v, 1, 6)
    ELSE v

\* libinput_device_config_*_set*(device, v) == LIBINPUT_CONFIG_STATUS_SUCCESS
DevAccepts(pd, opt, v) == ValueOk(pd, opt, v) /\ opt \notin pd.refuse

\* the handle's configuration after libinput_device_config_*_set*(device, v)
DevSet(pd, cfg, opt, v) ==
    IF DevAccepts(pd, opt, v)
    THEN [cfg EXCEPT ![opt] = Held(opt, v)]
    ELSE cfg


(***************************************************************************)
(* Button numbering: device (linux) codes and consumer (xorg) numbers      *)
(***************************************************************************)
btn_linux2xorg(b) ==
    CASE b = 0 -> 0
      [] b = BTN_LEFT -> 1
      [] b = BTN_MIDDLE -> 2
      [] b = BTN_RIGHT -> 3
      [] OTHER -> 8 + b - BTN_SIDE

btn_xorg2linux(b) ==
    CASE b = 0 -> 0
      [] b = 1 -> BTN_LEFT
      [] b = 2 -> BTN_MIDDLE
      [] b = 3 -> BTN_RIGHT
      [] OTHER -> b - 8 + BTN_SIDE

(***************************************************************************)
(* The configuration input options (xorg.conf).  An option is <<>> when    *)
(* it is not set and <<v>> when it is set to v.                            *)
(***************************************************************************)
NoOptions ==
    [Tapping |-> <<>>, TappingDragLock |-> <<>>, AccelSpeed |-> <<>>,
     NaturalScrolling |-> <<>>, SendEventsMode |-> <<>>, LeftHanded |-> <<>>,
     ScrollMethod |-> <<>>, ScrollButton |-> <<>>, ClickMethod |-> <<>>,
     MiddleEmulation |-> <<>>, Halfkey |-> <<>>, CalibrationMatrix |-> <<>>]

\* a token of an option text read by sscanf("%f"): a number or not
Num(n) == [num |-> TRUE, v |-> n]
Junk == [num |-> FALSE, v |-> 0]

M_scaled == <<Num(1), Num(0), Num(0), Num(0), Num(2), Num(0),
              Num(0), Num(0), Num(2)>>
M_lastrow == <<Num(2), Num(0), Num(0), Num(0), Num(2), Num(0),
               Num(1), Num(1), Num(4)>>
M_short == <<Num(1), Num(0), Num(0), Num(0), Num(2), Num(0)>>
M_junk == <<Num(1), Num(0), Junk, Num(0), Num(2), Num(0),
            Num(0), Num(0), Num(2)>>

\* the values each option is set to in the model
OptionValues ==
    [Tapping |-> {0, 1}, TappingDragLock |-> {0, 1},
     AccelSpeed |-> {-2, 1, 3},
     NaturalScrolling |-> {0, 1},
     SendEventsMode |-> {S_enabled, S_disabled, S_disabled_ext, S_bogus},
     LeftHanded |-> {0, 1},
     ScrollMethod |-> {S_twofinger, S_edge, S_button, S_none, S_bogus, S_Edge},
     ScrollButton |-> {0, 1, 2, 8, 9},
     ClickMethod |-> {S_buttonareas, S_clickfinger, S_none, S_bogus},
     MiddleEmulation |-> {0, 1}, Halfkey |-> {0, 1},
     CalibrationMatrix |-> {M_scaled, M_lastrow, M_short, M_junk}]

\* option sets with at most one option set
UserOptions ==
    {NoOptions} \cup
    UNION {{[NoOptions EXCEPT ![k] = <<v>>] : v \in OptionValues[k]}
           : k \in DOMAIN NoOptions}

\* xf86SetBoolOption / xf86SetRealOption / xf86SetIntOption(options, name, deflt)
xf86SetOption(opt, deflt) == IF opt = <<>> THEN deflt ELSE opt[1]

\* strcmp(a, b) == 0
StrEq(a, b) == a = b

(***************************************************************************)
(* Option Resolver.  Every parse operator yields the resolved value v and  *)
(* the handle's configuration cfg after the calls it made.                 *)
(***************************************************************************)
\* the common shape: option unsupported -> fixed value; else the override
\* (or deflt), set on the device, read back when the device refuses it
ParseSimple(pd, cfg, opt, fixed, want) ==
    IF ~Supported(pd, opt)
    THEN [v |-> fixed, cfg |-> cfg]
    ELSE IF DevAccepts(pd, opt, want)
         THEN [v |-> want, cfg |-> DevSet(pd, cfg, opt, want)]
         ELSE [v |-> cfg[opt], cfg |-> cfg]

xf86libinput_parse_tap_option(pd, cfg, uo) ==
    ParseSimple(pd, cfg, "tap", 0, xf86SetOption(uo.Tapping, cfg.tap))

xf86libinput_parse_tap_drag_lock_option(pd, cfg, uo) ==
    ParseSimple(pd, cfg, "drag_lock", 0,
                xf86SetOption(uo.TappingDragLock, cfg.drag_lock))

xf86libinput_parse_accel_option(pd, cfg, uo) ==
    ParseSimple(pd, cfg, "speed", 0, xf86SetOption(uo.AccelSpeed, cfg.speed))

xf86libinput_parse_natscroll_option(pd, cfg, uo) ==
    ParseSimple(pd, cfg, "natscroll", 0,
                xf86SetOption(uo.NaturalScrolling, cfg.natscroll))

xf86libinput_parse_sendevents_option(pd, cfg, uo) ==
    IF pd.se_modes = LIBINPUT_CONFIG_SEND_EVENTS_ENABLED
    THEN [v |-> LIBINPUT_CONFIG_SEND_EVENTS_ENABLED, cfg |-> cfg]
    ELSE LET strmode == uo.SendEventsMode
             mode ==
                IF strmode = <<>> THEN cfg.sendevents
                ELSE IF StrEq(strmode[1], S_enabled)
                     THEN LIBINPUT_CONFIG_SEND_EVENTS_ENABLED
                ELSE IF StrEq(strmode[1], S_disabled)
                     THEN LIBINPUT_CONFIG_SEND_EVENTS_DISABLED
                ELSE IF StrEq(strmode[1], S_disabled_ext)
                     THEN LIBINPUT_CONFIG_SEND_EVENTS_DISABLED_ON_EXTERNAL_MOUSE
                ELSE cfg.sendevents
         IN IF DevAccepts(pd, "sendevents", mode)
            THEN [v |-> mode, cfg |-> DevSet(pd, cfg, "sendevents", mode)]
            ELSE [v |-> cfg.sendevents, cfg |-> cfg]

xf86libinput_parse_lefthanded_option(pd, cfg, uo) ==
    ParseSimple(pd, cfg, "left", 0, xf86SetOption(uo.LeftHanded, cfg.left))

\* the same without the early return for a device with no scroll method
parse_scroll_option_unchecked(pd, cfg, uo) ==
    LET method == uo.ScrollMethod
        m == IF method = <<>> THEN cfg.scroll_method
             ELSE IF StrNCaseEq(method[1], S_twofinger)
                  THEN LIBINPUT_CONFIG_SCROLL_2FG
             ELSE IF StrNCaseEq(method[1], S_edge)
                  THEN LIBINPUT_CONFIG_SCROLL_EDGE
             ELSE IF StrNCaseEq(method[1], S_button)
                  THEN LIBINPUT_CONFIG_SCROLL_ON_BUTTON_DOWN
             ELSE IF StrNCaseEq(method[1], S_none)
                  THEN LIBINPUT_CONFIG_SCROLL_NO_SCROLL
             ELSE cfg.scroll_method
    IN [v |-> m, cfg |-> cfg]

\* the method is taken from the text; the device is not asked
xf86libinput_parse_scroll_option(pd, cfg, uo) ==
    IF pd.scroll_methods = LIBINPUT_CONFIG_SCROLL_NO_SCROLL
    THEN [v |-> LIBINPUT_CONFIG_SCROLL_NO_SCROLL, cfg |-> cfg]
    ELSE LET method == uo.ScrollMethod
             m == IF method = <<>> THEN cfg.scroll_method
                  ELSE IF StrNCaseEq(method[1], S_twofinger)
                       THEN LIBINPUT_CONFIG_SCROLL_2FG
                  ELSE IF StrNCaseEq(method[1], S_edge)
                       THEN LIBINPUT_CONFIG_SCROLL_EDGE
                  ELSE IF StrNCaseEq(method[1], S_button)
                       THEN LIBINPUT_CONFIG_SCROLL_ON_BUTTON_DOWN
                  ELSE IF StrNCaseEq(method[1], S_none)
                       THEN LIBINPUT_CONFIG_SCROLL_NO_SCROLL
                  ELSE cfg.scroll_method
         IN [v |-> m, cfg |-> cfg]

\* the resolved scroll button is an xorg button number
xf86libinput_parse_scrollbutton_option(pd, cfg, uo) ==
    IF BitAnd(pd.scroll_methods, LIBINPUT_CONFIG_SCROLL_ON_BUTTON_DOWN) = 0
    THEN [v |-> 0, cfg |-> cfg]
    ELSE LET scroll_button ==
                xf86SetOption(uo.ScrollButton,
                              btn_linux2xorg(cfg.scroll_button))
             b == btn_xorg2linux(scroll_button)
         IN IF DevAccepts(pd, "scroll_button", b)
            THEN [v |-> scroll_button,
                  cfg |-> DevSet(pd, cfg, "scroll_button", b)]
            ELSE [v |-> btn_linux2xorg(cfg.scroll_button), cfg |-> cfg]

\* the method is taken from the text; the device is not asked
xf86libinput_parse_clickmethod_option(pd, cfg, uo) ==
    IF pd.click_methods = LIBINPUT_CONFIG_CLICK_METHOD_NONE
    THEN [v |-> LIBINPUT_CONFIG_CLICK_METHOD_NONE, cfg |-> cfg]
    ELSE LET method == uo.ClickMethod
             m == IF method = <<>> THEN cfg.click_method
                  ELSE IF StrNCaseEq(method[1], S_buttonareas)
                       THEN LIBINPUT_CONFIG_CLICK_METHOD_BUTTON_AREAS
                  ELSE IF StrNCaseEq(method[1], S_clickfinger)
                       THEN LIBINPUT_CONFIG_CLICK_METHOD_CLICKFINGER
                  ELSE IF StrNCaseEq(method[1], S_none)
                       THEN LIBINPUT_CONFIG_CLICK_METHOD_NONE
                  ELSE cfg.click_method
         IN [v |-> m, cfg |-> cfg]

\* the override defaults to the device's default, not its current value
xf86libinput_parse_middleemulation_option(pd, cfg, uo) ==
    ParseSimple(pd, cfg, "middle", 0,
                xf86SetOption(uo.MiddleEmulation, pd.dflt.middle))

xf86libinput_parse_halfkey_option(pd, cfg, uo) ==
    ParseSimple(pd, cfg, "halfkey", 0,
                xf86SetOption(uo.Halfkey, pd.dflt.halfkey))

\* sscanf(str, "%f %f %f %f %f %f %f %f %f ", &matrix[0] .. &matrix[8]):
\* the number of leading numeric tokens, at most 9, and matrix with those
\* entries overwritten
RECURSIVE ScanCount(_, _)
ScanCount(toks, i) ==
    IF i > Len(toks) \/ i > 9 \/ ~toks[i].num THEN i - 1
    ELSE ScanCount(toks, i + 1)

Sscanf9(toks, matrix) ==
    LET n == ScanCount(toks, 1)
    IN [n |-> n,
        matrix |-> [i \in 1..9 |-> IF i <= n THEN toks[i].v ELSE matrix[i]]]

xf86libinput_parse_calibration_option(pd, cfg, uo) ==
    IF ~pd.calib
    THEN [v |-> Identity9, cfg |-> cfg]
    ELSE LET matrix == cfg.matrix \o <<0, 0, 2>>
             str == uo.CalibrationMatrix
         IN IF str = <<>>
            THEN [v |-> matrix, cfg |-> cfg]
            ELSE LET sc == Sscanf9(str[1], matrix)
                 IN IF sc.n # 9
                    THEN [v |-> matrix, cfg |-> cfg]
                    ELSE IF DevAccepts(pd, "matrix", sc.matrix)
                    THEN [v |-> sc.matrix,
                          cfg |-> DevSet(pd, cfg, "matrix", sc.matrix)]
                    ELSE [v |-> matrix, cfg |-> cfg]

\* the OptionSet and the handle's configuration after option resolution
xf86libinput_parse_options(pd, cfg0, uo) ==
    LET r1 == xf86libinput_parse_tap_option(pd, cfg0, uo)
        r2 == xf86libinput_parse_tap_drag_lock_option(pd, r1.cfg, uo)
        r3 == xf86libinput_parse_accel_option(pd, r2.cfg, uo)
        r4 == xf86libinput_parse_natscroll_option(pd, r3.cfg, uo)
        r5 == xf86libinput_parse_sendevents_option(pd, r4.cfg, uo)
        r6 == xf86libinput_parse_lefthanded_option(pd, r5.cfg, uo)
        r7 == xf86libinput_parse_scroll_option(pd, r6.cfg, uo)
        r8 == xf86libinput_parse_scrollbutton_option(pd, r7.cfg, uo)
        r9 == xf86libinput_parse_clickmethod_option(pd, r8.cfg, uo)
        r10 == xf86libinput_parse_middleemulation_option(pd, r9.cfg, uo)
        r11 == xf86libinput_parse_halfkey_option(pd, r10.cfg, uo)
        r12 == xf86libinput_parse_calibration_option(pd, r11.cfg, uo)
    IN [options |->
            [tapping |-> r1.v, tap_drag_lock |-> r2.v, speed |-> r3.v,
             natural_scrolling |-> r4.v, sendevents |-> r5.v,
             left_handed |-> r6.v, scroll_method |-> r7.v,
             scroll_button |-> r8.v, click_method |-> r9.v,
             middle_emulation |-> r10.v, halfkey |-> r11.v,
             matrix |-> r12.v],
        cfg |-> r12.cfg]

(***************************************************************************)
(* Configuration Applier: every option is set on the handle on its own;    *)
(* a refused option is logged and nothing is read back.                    *)
(***************************************************************************)
\* one option of the applier handing over a boolean as a change of the value
\* the handle has
ApplyOneToggling(pd, cfg, opt, guard, v) ==
    IF guard
    THEN DevSet(pd, cfg, opt,
                IF opt \in {"natscroll", "left", "middle", "halfkey"}
                THEN (cfg[opt] + v) % 2 ELSE v)
    ELSE cfg

ApplyOne(pd, cfg, opt, guard, v) ==
    IF guard THEN DevSet(pd, cfg, opt, v) ELSE cfg

\* the applier handing nothing to the handle
ApplyNothing(pd, cfg0, options) == cfg0

LibinputApplyConfig(pd, cfg0, options) ==
    LET c1 == ApplyOne(pd, cfg0, "sendevents",
                       pd.se_modes # LIBINPUT_CONFIG_SEND_EVENTS_ENABLED,
                       options.sendevents)
        c2 == ApplyOne(pd, c1, "natscroll", pd.natscroll,
                       options.natural_scrolling)
        c3 == ApplyOne(pd, c2, "speed", pd.accel, options.speed)
        c4 == ApplyOne(pd, c3, "tap", pd.tap_fingers > 0, options.tapping)
        c5 == ApplyOne(pd, c4, "drag_lock", pd.tap_fingers > 0,
                       options.tap_drag_lock)
        c6 == ApplyOne(pd, c5, "matrix", pd.calib, options.matrix)
        c7 == ApplyOne(pd, c6, "left", pd.left, options.left_handed)
        c8 == ApplyOne(pd, c7, "scroll_method", TRUE, options.scroll_method)
        c9 == ApplyOne(pd, c8, "scroll_button",
                       BitAnd(pd.scroll_methods,
                              LIBINPUT_CONFIG_SCROLL_ON_BUTTON_DOWN) # 0,
                       btn_xorg2linux(options.scroll_button))
        c10 == ApplyOne(pd, c9, "click_method", TRUE, options.click_method)
        c11 == ApplyOne(pd, c10, "middle", pd.middle,
                        options.middle_emulation)
        c12 == ApplyOne(pd, c11, "halfkey", pd.halfkey, options.halfkey)
    IN c12


(***************************************************************************)
(* State                                                                   *)
(***************************************************************************)
Devs == {"d1", "d2"}

\* the "Device" option and the descriptor the server opened for it
PathOf(d) == IF d = "d1" THEN "/dev/input/event1" ELSE "/dev/input/event2"
ServerFdOf(d) == IF d = "d1" THEN 11 ELSE 12
\* libinput_get_fd(libinput): the epoll descriptor of the shared context
LibinputFd == 3
\* the descriptor open(path, flags) yields for the device
OpenedFd(d) == IF d = "d1" THEN 21 ELSE 22

VARIABLES
    libinput,             \* driver_context.libinput: references held, 0 = NULL
    device_enabled_count, \* driver_context.device_enabled_count
    server_fds,           \* driver_context.server_fds, head first
    enabled_fds,          \* descriptors given to AddEnabledDevice
    pInfo,                \* per InputInfo: stage, fd, flags, private, on, ...
    driver_data,          \* per InputInfo: struct xf86libinput
    handle,               \* per InputInfo: the libinput_device last created
    queue,                \* the event source's queue, oldest first
    posted,               \* consumer calls made by the last step
    next_touchid,         \* static in xf86libinput_handle_touch
    touchids,             \* static in xf86libinput_handle_touch
    contacts,             \* per device: slots in contact (event source side)
    assigned,             \* per device and slot: identity given at its last down
    handed,               \* identities handed out so far, in order
    lastcall,             \* the last property request or read, and its result
    nwrites,              \* property requests made so far
    uaf                   \* a freed libinput_device was used

vars == <<libinput, device_enabled_count, server_fds, enabled_fds, pInfo,
          driver_data, handle, queue, posted, next_touchid, touchids,
          contacts, assigned, handed, lastcall, nwrites, uaf>>

lifecycle_vars == <<libinput, device_enabled_count, server_fds, enabled_fds,
                    pInfo, driver_data, handle>>
event_vars == <<queue, next_touchid, touchids, contacts, assigned, handed>>
translate_vars == <<next_touchid, touchids, assigned, handed>>

NoOptionSet ==
    [tapping |-> 0, tap_drag_lock |-> 0, speed |-> 0,
     natural_scrolling |-> 0, sendevents |-> 0, left_handed |-> 0,
     scroll_method |-> 0, scroll_button |-> 0, click_method |-> 0,
     middle_emulation |-> 0, halfkey |-> 0,
     matrix |-> <<0, 0, 0, 0, 0, 0, 0, 0, 0>>]

\* driver_data->scroll before xf86libinput_pre_init has set it
NoScroll == [vdist |-> 0, hdist |-> 0]

\* the driver's properties of a device before LibinputInitProperty
NoProperties == [a \in {} |-> 0]

NoCall == [kind |-> "none"]

\* the slots the devices of the model report
Slots == {0, 1}

Init ==
    /\ libinput = 0
    /\ device_enabled_count = 0
    /\ server_fds = <<>>
    /\ enabled_fds = {}
    /\ pInfo = [d \in Devs |->
                  [stage |-> "none", fd |-> -1, server_fd |-> FALSE,
                   private |-> FALSE, on |-> FALSE, pd |-> BareDevice,
                   uo |-> NoOptions, props |-> NoProperties]]
    /\ driver_data = [d \in Devs |->
                        [device |-> "NULL", has_abs |-> FALSE,
                         scroll |-> NoScroll, options |-> NoOptionSet]]
    /\ handle = [d \in Devs |->
                   [refs |-> 0, added |-> FALSE, user_data |-> FALSE,
                    cfg |-> BaseConfig, fd |-> -1, closed |-> -1]]
    /\ queue = <<>>
    /\ posted = <<>>
    /\ next_touchid = 0
    /\ touchids = [i \in 0..(TOUCH_MAX_SLOTS - 1) |-> 0]
    /\ contacts = [d \in Devs |-> {}]
    /\ assigned = [d \in Devs |-> [s \in Slots |-> -1]]
    /\ handed = <<>>
    /\ lastcall = NoCall
    /\ nwrites = 0
    /\ uaf = FALSE

(***************************************************************************)
(* Device Registry                                                         *)
(***************************************************************************)
use_server_fd(pi) == pi.fd > -1 /\ pi.server_fd

\* xorg_list_add puts the binding at the head of the list
fd_push(fds, fd, path) == <<[fd |-> fd, path |-> path]>> \o fds

fd_get(fds, path) ==
    IF \E i \in 1..Len(fds) : fds[i].path = path
    THEN fds[CHOOSE i \in 1..Len(fds) :
                /\ fds[i].path = path
                /\ \A j \in 1..(i - 1) : fds[j].path # path].fd
    ELSE -1

\* removes the first binding of fd
fd_pop(fds, fd) ==
    IF \E i \in 1..Len(fds) : fds[i].fd = fd
    THEN LET k == CHOOSE i \in 1..Len(fds) :
                    /\ fds[i].fd = fd
                    /\ \A j \in 1..(i - 1) : fds[j].fd # fd
         IN SubSeq(fds, 1, k - 1) \o SubSeq(fds, k + 1, Len(fds))
    ELSE fds

fd_find(fds, fd) ==
    IF \E i \in 1..Len(fds) : fds[i].fd = fd THEN fd ELSE -1

\* open_restricted: the descriptor libinput reads the device through;
\* opened is what open(path, flags) yields
open_restricted(fds, path, opened) ==
    LET fd == fd_get(fds, path)
    IN IF fd = -1 THEN opened ELSE fd

\* close_restricted: the descriptor handed to close(), -1 when none is
close_restrictedAlways(fds, fd) == fd

close_restricted(fds, fd) == IF fd_find(fds, fd) = -1 THEN fd ELSE -1

(***************************************************************************)
(* Lifecycle                                                               *)
(***************************************************************************)
\* the handle is referenced by driver_data->device and has been destroyed
Dangling(d) == driver_data[d].device = "ptr" /\ handle[d].refs = 0

\* events of a handle removed from the context find no InputInfo any more
Unhook(q, d) ==
    [i \in 1..Len(q) |-> IF q[i].dev = d THEN [q[i] EXCEPT !.stale = TRUE]
                         ELSE q[i]]

\* the registry after the context was created or referenced: creating the
\* context runs xorg_list_init on the list
ContextFds == IF libinput = 0 THEN <<>> ELSE server_fds

\* xf86libinput_pre_init, device open succeeding.  pd is the device found at
\* the path, uo the options of the configuration, sfd whether the server
\* passed a descriptor (XI86_SERVER_FD).
PreInit(d, pd, uo, sfd) ==
    /\ pInfo[d].stage = "none"
    /\ LET fd == IF sfd THEN ServerFdOf(d) ELSE -1
           \* fd_push before libinput_path_add_device, fd_pop after
           \* libinput_path_remove_device: the registry is as before
           pushed == IF sfd THEN fd_push(ContextFds, fd, PathOf(d))
                     ELSE ContextFds
           fds == IF sfd THEN fd_pop(pushed, fd) ELSE ContextFds
           \* libinput_path_add_device opens the device through
           \* open_restricted, libinput_path_remove_device closes it through
           \* close_restricted, the binding still in the registry
           opened == open_restricted(pushed, PathOf(d), OpenedFd(d))
           \* add_device (1 reference, the context's), device_ref,
           \* path_remove_device (drops the context's reference)
           res == xf86libinput_parse_options(pd, pd.dflt, uo)
       IN /\ libinput' = libinput + 1
          /\ server_fds' = fds
          /\ pInfo' = [pInfo EXCEPT ![d] =
                          [stage |-> "preinit", fd |-> fd, server_fd |-> sfd,
                           private |-> TRUE, on |-> FALSE, pd |-> pd,
                           uo |-> uo, props |-> NoProperties]]
          /\ handle' = [handle EXCEPT ![d] =
                          [refs |-> 1, added |-> FALSE, user_data |-> FALSE,
                           cfg |-> res.cfg, fd |-> -1,
                           closed |-> close_restricted(pushed, opened)]]
          /\ driver_data' = [driver_data EXCEPT ![d] =
                          [device |-> "ptr", has_abs |-> FALSE,
                           scroll |-> [vdist |-> SCROLL_DIST,
                                       hdist |-> SCROLL_DIST],
                           options |-> res.options]]
    /\ lastcall' = NoCall
    /\ posted' = <<>>
    /\ UNCHANGED <<device_enabled_count, enabled_fds, nwrites, uaf>>
    /\ UNCHANGED event_vars

(***************************************************************************)
(* The properties made at DEVICE_INIT.  Every initialiser yields the set   *)
(* of the <<atom, value>> pairs it makes; XIChangeDeviceProperty is taken  *)
(* to succeed.                                                             *)
(***************************************************************************)
\* the value handed to XIChangeDeviceProperty by LibinputMakeProperty
LibinputMakeProperty(type, format, data) ==
    [format |-> format, size |-> Len(data), type |-> type, data |-> data]

\* BOOL array: element i set when the bit masks[i] is in bits
BoolsOfBits(bits, masks) ==
    [i \in 1..Len(masks) |-> IF BitAnd(bits, masks[i]) # 0 THEN 1 ELSE 0]

\* BOOL array after memset and a switch: element i set when v is masks[i]
BoolsOfValue(v, masks) ==
    [i \in 1..Len(masks) |-> IF v = masks[i] THEN 1 ELSE 0]

\* BOOL array written over without a memset: the elements of old stay set
BoolsOver(old, new) ==
    [i \in 1..Len(old) |-> IF old[i] = 1 \/ new[i] = 1 THEN 1 ELSE 0]

SendEventsMasks == <<LIBINPUT_CONFIG_SEND_EVENTS_DISABLED,
                     LIBINPUT_CONFIG_SEND_EVENTS_DISABLED_ON_EXTERNAL_MOUSE>>
ScrollMasks == <<LIBINPUT_CONFIG_SCROLL_2FG, LIBINPUT_CONFIG_SCROLL_EDGE,
                 LIBINPUT_CONFIG_SCROLL_ON_BUTTON_DOWN>>
ClickMasks == <<LIBINPUT_CONFIG_CLICK_METHOD_BUTTON_AREAS,
                LIBINPUT_CONFIG_CLICK_METHOD_CLICKFINGER>>

\* the initialisers of the options that are one BOOL or one float
InitOneItemProperty(capable, atom, type, format, current, default) ==
    IF ~capable THEN {}
    ELSE {<<atom, LibinputMakeProperty(type, format, <<current>>)>>,
          <<atom \o "_default",
            LibinputMakeProperty(type, format, <<default>>)>>}

LibinputInitTapProperty(pd, cfg, options) ==
    InitOneItemProperty(pd.tap_fingers > 0, "prop_tap", "XA_INTEGER", 8,
                        options.tapping, pd.dflt.tap)

\* the default is read with libinput_device_config_tap_get_default_enabled
LibinputInitTapDragLockProperty(pd, cfg, options) ==
    InitOneItemProperty(pd.tap_fingers > 0, "prop_tap_drag_lock",
                        "XA_INTEGER", 8, options.tap_drag_lock, pd.dflt.tap)

\* calibration[6..8] are written once, before the first property is made
LibinputInitCalibrationProperty(pd, cfg, options) ==
    IF ~pd.calib THEN {}
    ELSE {<<"prop_calibration",
            LibinputMakeProperty("prop_float", 32, cfg.matrix \o <<0, 0, 2>>)>>,
          <<"prop_calibration_default",
            LibinputMakeProperty("prop_float", 32,
                                 pd.dflt.matrix \o <<0, 0, 2>>)>>}

LibinputInitAccelProperty(pd, cfg, options) ==
    InitOneItemProperty(pd.accel, "prop_accel", "prop_float", 32,
                        options.speed, pd.dflt.speed)

LibinputInitNaturalScrollProperty(pd, cfg, options) ==
    InitOneItemProperty(pd.natscroll, "prop_natural_scroll", "XA_INTEGER", 8,
                        options.natural_scrolling, pd.dflt.natscroll)

LibinputInitSendEventsProperty(pd, cfg, options) ==
    IF pd.se_modes = LIBINPUT_CONFIG_SEND_EVENTS_ENABLED THEN {}
    ELSE {<<"prop_sendevents_available",
            LibinputMakeProperty("XA_INTEGER", 8,
                                 BoolsOfBits(pd.se_modes, SendEventsMasks))>>,
          <<"prop_sendevents_enabled",
            LibinputMakeProperty("XA_INTEGER", 8,
                                 BoolsOfValue(options.sendevents,
                                              SendEventsMasks))>>,
          <<"prop_sendevents_default",
            LibinputMakeProperty("XA_INTEGER", 8,
                                 BoolsOfBits(pd.dflt.sendevents,
                                             SendEventsMasks))>>}

LibinputInitLeftHandedProperty(pd, cfg, options) ==
    InitOneItemProperty(pd.left, "prop_left_handed", "XA_INTEGER", 8,
                        options.left_handed, pd.dflt.left)

\* the array of the default is not cleared after the enabled method was
\* written to it; the default button is the value of
\* libinput_device_config_scroll_get_default_button as it is
LibinputInitScrollMethodsProperty(pd, cfg, options) ==
    IF pd.scroll_methods = LIBINPUT_CONFIG_SCROLL_NO_SCROLL THEN {}
    ELSE LET enabled == BoolsOfValue(cfg.scroll_method, ScrollMasks)
         IN {<<"prop_scroll_methods_available",
               LibinputMakeProperty("XA_INTEGER", 8,
                                    BoolsOfBits(pd.scroll_methods,
                                                ScrollMasks))>>,
             <<"prop_scroll_method_enabled",
               LibinputMakeProperty("XA_INTEGER", 8, enabled)>>,
             <<"prop_scroll_method_default",
               LibinputMakeProperty("XA_INTEGER", 8,
                    BoolsOver(enabled,
                              BoolsOfBits(pd.dflt.scroll_method,
                                          ScrollMasks)))>>}
            \cup
            InitOneItemProperty(
                BitAnd(pd.scroll_methods,
                       LIBINPUT_CONFIG_SCROLL_ON_BUTTON_DOWN) # 0,
                "prop_scroll_button", "XA_CARDINAL", 32,
                options.scroll_button, pd.dflt.scroll_button)

LibinputInitClickMethodsProperty(pd, cfg, options) ==
    IF pd.click_methods = LIBINPUT_CONFIG_CLICK_METHOD_NONE THEN {}
    ELSE {<<"prop_click_methods_available",
            LibinputMakeProperty("XA_INTEGER", 8,
                                 BoolsOfBits(pd.click_methods, ClickMasks))>>,
          <<"prop_click_method_enabled",
            LibinputMakeProperty("XA_INTEGER", 8,
                                 BoolsOfValue(cfg.click_method, ClickMasks))>>,
          <<"prop_click_method_default",
            LibinputMakeProperty("XA_INTEGER", 8,
                                 BoolsOfValue(pd.dflt.click_method,
                                              ClickMasks))>>}

LibinputInitMiddleEmulationProperty(pd, cfg, options) ==
    InitOneItemProperty(pd.middle, "prop_middle_emulation", "XA_INTEGER", 8,
                        options.middle_emulation, pd.dflt.middle)

LibinputInitHalfkeyProperty(pd, cfg, options) ==
    InitOneItemProperty(pd.halfkey, "prop_halfkey", "XA_INTEGER", 8,
                        options.halfkey, pd.dflt.halfkey)

\* LibinputInitProperty: the properties of the device, by atom
LibinputInitProperty(pd, cfg, options) ==
    LET made == LibinputInitTapProperty(pd, cfg, options)
                \cup LibinputInitTapDragLockProperty(pd, cfg, options)
                \cup LibinputInitCalibrationProperty(pd, cfg, options)
                \cup LibinputInitAccelProperty(pd, cfg, options)
                \cup LibinputInitNaturalScrollProperty(pd, cfg, options)
                \cup LibinputInitSendEventsProperty(pd, cfg, options)
                \cup LibinputInitLeftHandedProperty(pd, cfg, options)
                \cup LibinputInitScrollMethodsProperty(pd, cfg, options)
                \cup LibinputInitClickMethodsProperty(pd, cfg, options)
                \cup LibinputInitMiddleEmulationProperty(pd, cfg, options)
                \cup LibinputInitHalfkeyProperty(pd, cfg, options)
    IN [a \in {m[1] : m \in made} |-> (CHOOSE m \in made : m[1] = a)[2]]

\* xf86libinput_init (DEVICE_INIT)
DeviceInit(d) ==
    /\ pInfo[d].stage = "preinit"
    /\ LET pd == pInfo[d].pd
           abs == pd.cap_pointer /\ pd.calib /\ ~pd.accel
           cfg == LibinputApplyConfig(pd, handle[d].cfg,
                                      driver_data[d].options)
       IN /\ pInfo' = [pInfo EXCEPT
                          ![d].stage = "init", ![d].on = FALSE,
                          ![d].props = LibinputInitProperty(
                                           pd, cfg, driver_data[d].options)]
          /\ driver_data' = [driver_data EXCEPT ![d].has_abs = abs]
          \* libinput_device_unref: the last reference, the handle is
          \* destroyed while driver_data->device still points to it
          /\ handle' = [handle EXCEPT ![d].cfg = cfg,
                                      ![d].refs = handle[d].refs - 1]
    /\ lastcall' = NoCall
    /\ posted' = <<>>
    /\ UNCHANGED <<libinput, device_enabled_count, server_fds, enabled_fds,
                   nwrites, uaf>>
    /\ UNCHANGED event_vars

\* xf86libinput_on (DEVICE_ON), libinput_path_add_device succeeding
DeviceOn(d) ==
    /\ pInfo[d].stage \in {"init", "off"}
    /\ use_server_fd(pInfo[d]) => Len(server_fds) < MaxBindings
    /\ LET pd == pInfo[d].pd
           fds == IF use_server_fd(pInfo[d])
                  THEN fd_push(server_fds, pInfo[d].fd, PathOf(d))
                  ELSE server_fds
           cfg == LibinputApplyConfig(pd, pd.dflt, driver_data[d].options)
       IN /\ server_fds' = fds
          /\ handle' = [handle EXCEPT ![d] =
                          [refs |-> 2, added |-> TRUE, user_data |-> TRUE,
                           cfg |-> cfg,
                           \* libinput_path_add_device: open_restricted
                           fd |-> open_restricted(fds, PathOf(d),
                                                  OpenedFd(d)),
                           closed |-> -1]]
          /\ driver_data' = [driver_data EXCEPT ![d].device = "ptr"]
          /\ pInfo' = [pInfo EXCEPT ![d].stage = "on", ![d].on = TRUE,
                                    ![d].fd = LibinputFd]
          /\ enabled_fds' = IF device_enabled_count = 0
                            THEN enabled_fds \cup {LibinputFd}
                            ELSE enabled_fds
          /\ device_enabled_count' = device_enabled_count + 1
    /\ lastcall' = NoCall
    /\ posted' = <<>>
    /\ UNCHANGED <<libinput, nwrites, uaf>>
    /\ UNCHANGED event_vars

\* the condition of RemoveEnabledDevice, on the count already decremented,
\* and the same always true
LastDisabledAlways(count) == TRUE

LastDisabled(count) == count = 0

\* xf86libinput_off (DEVICE_OFF)
DeviceOff(d) ==
    /\ pInfo[d].stage = "on"
    /\ device_enabled_count' = device_enabled_count - 1
    /\ enabled_fds' = IF LastDisabled(device_enabled_count - 1)
                      THEN enabled_fds \ {pInfo[d].fd}
                      ELSE enabled_fds
    /\ IF use_server_fd(pInfo[d])
       THEN /\ server_fds' = fd_pop(server_fds, pInfo[d].fd)
            \* xf86SetIntOption(pInfo->options, "fd", -1)
            /\ pInfo' = [pInfo EXCEPT ![d].stage = "off", ![d].on = FALSE,
                                      ![d].fd = ServerFdOf(d)]
       ELSE /\ server_fds' = server_fds
            /\ pInfo' = [pInfo EXCEPT ![d].stage = "off", ![d].on = FALSE,
                                      ![d].fd = -1]
    \* libinput_path_remove_device: close_restricted, after the fd_pop
    /\ handle' = [handle EXCEPT ![d].user_data = FALSE, ![d].added = FALSE,
                                ![d].refs = handle[d].refs - 2,
                                ![d].fd = -1,
                                ![d].closed =
                                    close_restricted(server_fds',
                                                     handle[d].fd)]
    /\ driver_data' = [driver_data EXCEPT ![d].device = "NULL"]
    /\ queue' = Unhook(queue, d)
    /\ contacts' = [contacts EXCEPT ![d] = {}]
    /\ lastcall' = NoCall
    /\ posted' = <<>>
    /\ UNCHANGED <<libinput, nwrites, uaf>>
    /\ UNCHANGED translate_vars

\* the outcome of one call of xf86libinput_pre_init that failed
FailedOpen(d, why, null_access, returned) ==
    [kind |-> "pre_init", dev |-> d, why |-> why, null_access |-> null_access,
     returned |-> returned, rc |-> BadValue]

\* xf86libinput_pre_init failing, and returning BadValue: valuator_mask_new
\* yields NULL ("valuators"), the "Device" option is missing ("nopath"), or
\* libinput_path_add_device yields no device ("add_device").
\* pInfo->private is not set.
PreInitFail(d, why, sfd) ==
    /\ pInfo[d].stage = "none"
    /\ libinput < MaxContextRefs
    /\ LET fd == IF sfd THEN ServerFdOf(d) ELSE -1
       IN IF why \in {"valuators", "nopath"}
          THEN \* fail: fd_pop when the context exists
               /\ server_fds' = IF sfd /\ libinput # 0
                                THEN fd_pop(server_fds, fd)
                                ELSE server_fds
               /\ UNCHANGED libinput
          ELSE \* context created or referenced, fd_push, then fail: fd_pop
               /\ libinput' = libinput + 1
               /\ server_fds' = IF sfd
                                THEN fd_pop(fd_push(ContextFds, fd,
                                                    PathOf(d)), fd)
                                ELSE ContextFds
    /\ pInfo' = [pInfo EXCEPT ![d].stage = "failed",
                              ![d].fd = IF sfd THEN ServerFdOf(d) ELSE -1,
                              ![d].server_fd = sfd, ![d].private = FALSE]
    /\ lastcall' = FailedOpen(d, why, FALSE, TRUE)
    /\ posted' = <<>>
    /\ UNCHANGED <<device_enabled_count, enabled_fds, driver_data, handle,
                   nwrites, uaf>>
    /\ UNCHANGED event_vars

\* xf86libinput_pre_init failing where it goes on through a null pointer:
\* calloc yields NULL and the fail label reads driver_data->valuators
\* ("calloc"), or libinput_path_create_context yields NULL and the context
\* is handed to libinput_log_set_handler and libinput_log_set_priority
\* ("context").  The access is undefined: the server is terminated by the
\* fault, or the call runs on to return BadValue.
PreInitNullAccess(d, why, sfd, returned) ==
    /\ pInfo[d].stage = "none"
    /\ why = "context" => libinput = 0
    /\ IF returned
       THEN /\ pInfo' = [pInfo EXCEPT
                            ![d].stage = "failed",
                            ![d].fd = IF sfd THEN ServerFdOf(d) ELSE -1,
                            ![d].server_fd = sfd, ![d].private = FALSE]
            /\ server_fds' =
                  IF why = "context"
                  THEN \* xorg_list_init; no fd_pop without a context
                       <<>>
                  ELSE IF sfd /\ libinput # 0
                       THEN fd_pop(server_fds, ServerFdOf(d))
                       ELSE server_fds
       ELSE \* no device of the terminated server is left in any stage
            /\ pInfo' = [e \in Devs |-> [pInfo[e] EXCEPT !.stage = "gone"]]
            /\ UNCHANGED server_fds
    /\ lastcall' = FailedOpen(d, why, TRUE, returned)
    /\ posted' = <<>>
    /\ UNCHANGED <<libinput, device_enabled_count, enabled_fds, driver_data,
                   handle, nwrites, uaf>>
    /\ UNCHANGED event_vars

\* xf86libinput_on (DEVICE_ON), libinput_path_add_device yielding no device:
\* return !Success after the fd_push
DeviceOnFail(d) ==
    /\ pInfo[d].stage \in {"init", "off"}
    /\ use_server_fd(pInfo[d]) => Len(server_fds) < MaxBindings
    /\ server_fds' = IF use_server_fd(pInfo[d])
                     THEN fd_push(server_fds, pInfo[d].fd, PathOf(d))
                     ELSE server_fds
    /\ lastcall' = [kind |-> "on_failed", dev |-> d]
    /\ posted' = <<>>
    /\ UNCHANGED <<libinput, device_enabled_count, enabled_fds, pInfo,
                   driver_data, handle, nwrites, uaf>>
    /\ UNCHANGED event_vars

\* xf86libinput_uninit, of a device that is not enabled or whose open
\* failed; xf86DeleteInput drops the InputInfo.  The last libinput_unref
\* destroys the context and the events it has queued.
UnInit(d) ==
    /\ pInfo[d].stage \in {"failed", "preinit", "init", "off"}
    /\ IF pInfo[d].private
       THEN /\ libinput' = libinput - 1
            /\ queue' = IF libinput = 1 THEN <<>> ELSE queue
       ELSE UNCHANGED <<libinput, queue>>
    /\ pInfo' = [pInfo EXCEPT ![d] =
                    [stage |-> "none", fd |-> -1, server_fd |-> FALSE,
                     private |-> FALSE, on |-> FALSE, pd |-> BareDevice,
                     uo |-> NoOptions, props |-> NoProperties]]
    /\ driver_data' = [driver_data EXCEPT ![d] =
                          [device |-> "NULL", has_abs |-> FALSE,
                           scroll |-> NoScroll, options |-> NoOptionSet]]
    /\ lastcall' = NoCall
    /\ posted' = <<>>
    /\ UNCHANGED <<device_enabled_count, server_fds, enabled_fds, handle,
                   contacts, nwrites, uaf>>
    /\ UNCHANGED translate_vars

(***************************************************************************)
(* Property Bridge.  A property value is the XIPropertyValue of a request: *)
(* format, number of items, type and the items.  Every handler yields the  *)
(* result code and the OptionSet after the call.                           *)
(***************************************************************************)
Val(format, type, data) ==
    [format |-> format, size |-> Len(data), type |-> type, data |-> data]

WritableAtoms ==
    {"prop_tap", "prop_tap_drag_lock", "prop_calibration", "prop_accel",
     "prop_natural_scroll", "prop_sendevents_enabled", "prop_left_handed",
     "prop_scroll_method_enabled", "prop_scroll_button",
     "prop_click_method_enabled", "prop_middle_emulation", "prop_halfkey"}

\* the same without the defaults
ReadOnlyAtomsAvailableOnly ==
    {"prop_sendevents_available", "prop_scroll_methods_available",
     "prop_click_methods_available", "prop_device", "prop_product_id"}

ReadOnlyAtoms ==
    {"prop_sendevents_available", "prop_scroll_methods_available",
     "prop_click_methods_available", "prop_device", "prop_product_id",
     "prop_tap_default", "prop_tap_drag_lock_default",
     "prop_calibration_default", "prop_accel_default",
     "prop_natural_scroll_default", "prop_sendevents_default",
     "prop_left_handed_default", "prop_scroll_method_default",
     "prop_scroll_button_default", "prop_click_method_default",
     "prop_middle_emulation_default", "prop_halfkey_default"}

\* val->format != f || val->size != n || val->type != t
FormatOk(val, f, n, t) == val.format = f /\ val.size = n /\ val.type = t

\* device != NULL
xf86libinput_check_device(dd) == dd.device # "NULL"

\* the handlers of the options that are one BOOL: tap, tap drag lock,
\* natural scroll, middle emulation, halfkey
SetPropertyBool(dd, val, checkonly, capable, field) ==
    IF ~FormatOk(val, 8, 1, "XA_INTEGER")
    THEN [rc |-> BadMatch, options |-> dd.options]
    ELSE IF checkonly
    THEN [rc |-> IF val.data[1] # 0 /\ val.data[1] # 1 THEN BadValue
                 ELSE IF ~xf86libinput_check_device(dd) THEN BadMatch
                 ELSE IF ~capable THEN BadMatch
                 ELSE Success,
          options |-> dd.options]
    ELSE [rc |-> Success,
          options |-> [dd.options EXCEPT ![field] = val.data[1]]]

\* the same handler storing the value in check mode as well
SetPropertyTapStoring(dd, pd, val, checkonly) ==
    LET r == SetPropertyBool(dd, val, checkonly, pd.tap_fingers > 0,
                             "tapping")
    IN IF r.rc = Success
       THEN [r EXCEPT !.options = [dd.options EXCEPT !.tapping = val.data[1]]]
       ELSE r

LibinputSetPropertyTap(dd, pd, val, checkonly) ==
    SetPropertyBool(dd, val, checkonly, pd.tap_fingers > 0, "tapping")

LibinputSetPropertyTapDragLock(dd, pd, val, checkonly) ==
    SetPropertyBool(dd, val, checkonly, pd.tap_fingers > 0, "tap_drag_lock")

LibinputSetPropertyCalibration(dd, pd, val, checkonly) ==
    IF ~FormatOk(val, 32, 9, "prop_float")
    THEN [rc |-> BadMatch, options |-> dd.options]
    ELSE IF checkonly
    THEN [rc |-> IF val.data[7] # 0 \/ val.data[8] # 0 \/ val.data[9] # 2
                 THEN BadValue
                 ELSE IF ~xf86libinput_check_device(dd) THEN BadMatch
                 ELSE IF ~pd.calib THEN BadMatch
                 ELSE Success,
          options |-> dd.options]
    ELSE [rc |-> Success, options |-> [dd.options EXCEPT !.matrix = val.data]]

LibinputSetPropertyAccel(dd, pd, val, checkonly) ==
    IF ~FormatOk(val, 32, 1, "prop_float")
    THEN [rc |-> BadMatch, options |-> dd.options]
    ELSE IF checkonly
    THEN [rc |-> IF val.data[1] < -2 \/ val.data[1] > 2 THEN BadValue
                 ELSE IF ~xf86libinput_check_device(dd) THEN BadMatch
                 ELSE IF ~pd.accel THEN BadMatch
                 ELSE Success,
          options |-> dd.options]
    ELSE [rc |-> Success,
          options |-> [dd.options EXCEPT !.speed = val.data[1]]]

LibinputSetPropertyNaturalScroll(dd, pd, val, checkonly) ==
    SetPropertyBool(dd, val, checkonly, pd.natscroll, "natural_scrolling")

\* the same taking the first item only
FlagsOfFirstItem(data, flags) == IF data[1] # 0 THEN flags[1] ELSE 0

\* modes |= flag for every item of data that is not 0
FlagsOf(data, flags) ==
    SumPow(UNION {Bits(flags[i]) : i \in {k \in 1..Len(data) : data[k] # 0}})

LibinputSetPropertySendEvents(dd, pd, val, checkonly) ==
    IF ~FormatOk(val, 8, 2, "XA_INTEGER")
    THEN [rc |-> BadMatch, options |-> dd.options]
    ELSE LET modes == FlagsOf(val.data,
                        <<LIBINPUT_CONFIG_SEND_EVENTS_DISABLED,
                          LIBINPUT_CONFIG_SEND_EVENTS_DISABLED_ON_EXTERNAL_MOUSE>>)
         IN IF checkonly
            THEN [rc |-> IF ~xf86libinput_check_device(dd) THEN BadMatch
                         ELSE IF BitOr(modes, pd.se_modes) # pd.se_modes
                         THEN BadValue
                         ELSE Success,
                  options |-> dd.options]
            ELSE [rc |-> Success,
                  options |-> [dd.options EXCEPT !.sendevents = modes]]

LibinputSetPropertyLeftHanded(dd, pd, val, checkonly) ==
    IF ~FormatOk(val, 8, 1, "XA_INTEGER")
    THEN [rc |-> BadMatch, options |-> dd.options]
    ELSE IF checkonly
    THEN [rc |-> IF ~xf86libinput_check_device(dd) THEN BadMatch
                 ELSE IF ~pd.left /\ val.data[1] # 0 THEN BadValue
                 ELSE Success,
          options |-> dd.options]
    ELSE [rc |-> Success,
          options |-> [dd.options EXCEPT !.left_handed = val.data[1]]]

LibinputSetPropertyScrollMethods(dd, pd, val, checkonly) ==
    IF ~FormatOk(val, 8, 3, "XA_INTEGER")
    THEN [rc |-> BadMatch, options |-> dd.options]
    ELSE LET modes == FlagsOf(val.data,
                        <<LIBINPUT_CONFIG_SCROLL_2FG,
                          LIBINPUT_CONFIG_SCROLL_EDGE,
                          LIBINPUT_CONFIG_SCROLL_ON_BUTTON_DOWN>>)
         IN IF checkonly
            THEN [rc |-> IF Popcount(modes) > 1 THEN BadValue
                         ELSE IF ~xf86libinput_check_device(dd) THEN BadMatch
                         ELSE IF modes # 0 /\
                                 BitAnd(modes, pd.scroll_methods) = 0
                         THEN BadValue
                         ELSE Success,
                  options |-> dd.options]
            ELSE [rc |-> Success,
                  options |-> [dd.options EXCEPT !.scroll_method = modes]]

LibinputSetPropertyScrollButton(dd, pd, val, checkonly) ==
    IF ~FormatOk(val, 32, 1, "XA_CARDINAL")
    THEN [rc |-> BadMatch, options |-> dd.options]
    ELSE IF checkonly
    THEN [rc |-> IF ~xf86libinput_check_device(dd) THEN BadMatch
                 ELSE IF val.data[1] # 0 /\
                         btn_xorg2linux(val.data[1]) \notin pd.buttons
                 THEN BadValue
                 ELSE Success,
          options |-> dd.options]
    ELSE [rc |-> Success,
          options |-> [dd.options EXCEPT !.scroll_button = val.data[1]]]

LibinputSetPropertyClickMethod(dd, pd, val, checkonly) ==
    IF ~FormatOk(val, 8, 2, "XA_INTEGER")
    THEN [rc |-> BadMatch, options |-> dd.options]
    ELSE LET modes == FlagsOf(val.data,
                        <<LIBINPUT_CONFIG_CLICK_METHOD_BUTTON_AREAS,
                          LIBINPUT_CONFIG_CLICK_METHOD_CLICKFINGER>>)
         IN IF checkonly
            THEN [rc |-> IF Popcount(modes) > 1 THEN BadValue
                         ELSE IF ~xf86libinput_check_device(dd) THEN BadMatch
                         ELSE IF modes # 0 /\
                                 BitAnd(modes, pd.click_methods) = 0
                         THEN BadValue
                         ELSE Success,
                  options |-> dd.options]
            ELSE [rc |-> Success,
                  options |-> [dd.options EXCEPT !.click_method = modes]]

LibinputSetPropertyMiddleEmulation(dd, pd, val, checkonly) ==
    SetPropertyBool(dd, val, checkonly, pd.middle, "middle_emulation")

LibinputSetPropertyHalfkey(dd, pd, val, checkonly) ==
    SetPropertyBool(dd, val, checkonly, pd.halfkey, "halfkey")

\* if (!checkonly && rc == Success) LibinputApplyConfig(dev)
ApplyAfterNever(checkonly, rc) == FALSE

ApplyAfter(checkonly, rc) == ~checkonly /\ rc = Success

\* LibinputSetProperty: the result code, the OptionSet and the handle's
\* configuration after the call, and whether the applier was invoked
LibinputSetProperty(dd, cfg, pd, atom, val, checkonly) ==
    LET handled == atom \in WritableAtoms
        r == CASE atom = "prop_tap" ->
                    LibinputSetPropertyTap(dd, pd, val, checkonly)
               [] atom = "prop_tap_drag_lock" ->
                    LibinputSetPropertyTapDragLock(dd, pd, val, checkonly)
               [] atom = "prop_calibration" ->
                    LibinputSetPropertyCalibration(dd, pd, val, checkonly)
               [] atom = "prop_accel" ->
                    LibinputSetPropertyAccel(dd, pd, val, checkonly)
               [] atom = "prop_natural_scroll" ->
                    LibinputSetPropertyNaturalScroll(dd, pd, val, checkonly)
               [] atom = "prop_sendevents_enabled" ->
                    LibinputSetPropertySendEvents(dd, pd, val, checkonly)
               [] atom = "prop_left_handed" ->
                    LibinputSetPropertyLeftHanded(dd, pd, val, checkonly)
               [] atom = "prop_scroll_method_enabled" ->
                    LibinputSetPropertyScrollMethods(dd, pd, val, checkonly)
               [] atom = "prop_scroll_button" ->
                    LibinputSetPropertyScrollButton(dd, pd, val, checkonly)
               [] atom = "prop_click_method_enabled" ->
                    LibinputSetPropertyClickMethod(dd, pd, val, checkonly)
               [] atom = "prop_middle_emulation" ->
                    LibinputSetPropertyMiddleEmulation(dd, pd, val, checkonly)
               [] atom = "prop_halfkey" ->
                    LibinputSetPropertyHalfkey(dd, pd, val, checkonly)
               [] atom \in ReadOnlyAtoms ->
                    [rc |-> BadAccess, options |-> dd.options]
               [] OTHER -> [rc |-> Success, options |-> dd.options]
        apply == handled /\ ApplyAfter(checkonly, r.rc)
    IN [rc |-> r.rc, options |-> r.options, applied |-> apply,
        cfg |-> IF apply THEN LibinputApplyConfig(pd, cfg, r.options)
                ELSE cfg]


(***************************************************************************)
(* Property requests.  The server runs a change request in two calls of    *)
(* the handler registered at DEVICE_INIT: a check, and when the check is   *)
(* accepted the commit of the same value.  Requests that reach a device    *)
(* between DEVICE_INIT and DEVICE_ON are not part of these actions.        *)
(***************************************************************************)
\* LibinputSetProperty(dev, atom, val, TRUE)
PropertyCheck(d, atom, val) ==
    /\ pInfo[d].stage \in {"on", "off"}
    /\ nwrites < MaxWrites
    /\ LET r == LibinputSetProperty(driver_data[d], handle[d].cfg,
                                    pInfo[d].pd, atom, val, TRUE)
       IN /\ driver_data' = [driver_data EXCEPT ![d].options = r.options]
          /\ handle' = [handle EXCEPT ![d].cfg = r.cfg]
          /\ lastcall' = [kind |-> "check", dev |-> d, atom |-> atom,
                          val |-> val, rc |-> r.rc, applied |-> r.applied]
    /\ nwrites' = nwrites + 1
    /\ posted' = <<>>
    /\ UNCHANGED <<libinput, device_enabled_count, server_fds, enabled_fds,
                   pInfo, uaf>>
    /\ UNCHANGED event_vars

\* LibinputSetProperty(dev, atom, val, FALSE), right after the accepted check
PropertyCommit(d) ==
    /\ lastcall.kind = "check"
    /\ lastcall.dev = d
    /\ lastcall.rc = Success
    /\ LET r == LibinputSetProperty(driver_data[d], handle[d].cfg,
                                    pInfo[d].pd, lastcall.atom, lastcall.val,
                                    FALSE)
       IN /\ driver_data' = [driver_data EXCEPT ![d].options = r.options]
          /\ handle' = [handle EXCEPT ![d].cfg = r.cfg]
          /\ lastcall' = [lastcall EXCEPT !.kind = "commit", !.rc = r.rc,
                                          !.applied = r.applied]
    /\ posted' = <<>>
    /\ UNCHANGED <<libinput, device_enabled_count, server_fds, enabled_fds,
                   pInfo, nwrites, uaf>>
    /\ UNCHANGED event_vars


(***************************************************************************)
(* Event Translator                                                        *)
(***************************************************************************)
TouchTypes == {"TOUCH_DOWN", "TOUCH_UP", "TOUCH_MOTION", "TOUCH_CANCEL"}

\* the translation state a dispatch works on
TranslationState ==
    [posted |-> posted, next_touchid |-> next_touchid, touchids |-> touchids,
     assigned |-> assigned, handed |-> handed]

\* next_touchid++ on an unsigned int
NextTouchIdStuck(n) == n

NextTouchId(n) == U32Succ(n)

\* the table entry a slot uses: touchids[slot]
SlotIndexShared(slot) == 0

SlotIndex(slot) == slot

\* slot is an index of touchids[TOUCH_MAX_SLOTS]
InTable(slot) == slot \in 0..(TOUCH_MAX_SLOTS - 1)

\* xf86libinput_handle_touch: touchids and next_touchid are static locals of
\* the function, one table and one counter for all devices.  In a consumer
\* call, given is the identity handed out at the last touch-down of the
\* event's device and slot; assigned keeps it until the touch-up; index is
\* the index touchids was read at.  The slot is used as the index without a
\* test.  An access outside the table is undefined: the write leaves the
\* table as it is and lands on the counter (ev.clobber) or elsewhere, the
\* read yields whatever the memory there holds (ev.mem).
xf86libinput_handle_touch(st, ev) ==
    LET slot == ev.slot
        down == ev.type = "TOUCH_DOWN"
        ids == IF down /\ InTable(SlotIndex(slot))
               THEN [st.touchids EXCEPT ![SlotIndex(slot)] = st.next_touchid]
               ELSE st.touchids
        nxt == CASE ~down -> st.next_touchid
                 [] down /\ ~InTable(SlotIndex(slot)) /\ ev.clobber ->
                       st.next_touchid
                 [] OTHER -> NextTouchId(st.next_touchid)
        type == CASE ev.type = "TOUCH_DOWN" -> "XI_TouchBegin"
                  [] ev.type = "TOUCH_UP" -> "XI_TouchEnd"
                  [] OTHER -> "XI_TouchUpdate"
        known == slot \in DOMAIN st.assigned[ev.dev]
        call == [dev |-> ev.dev, call |-> "touch", type |-> type,
                 id |-> IF InTable(SlotIndex(slot))
                        THEN ids[SlotIndex(slot)] ELSE ev.mem,
                 slot |-> slot,
                 index |-> SlotIndex(slot),
                 given |-> CASE down -> st.next_touchid
                             [] ~down /\ known -> st.assigned[ev.dev][slot]
                             [] OTHER -> -1]
    IN IF ev.type \notin {"TOUCH_DOWN", "TOUCH_UP", "TOUCH_MOTION"}
       THEN st
       ELSE [posted |-> Append(st.posted, call),
             next_touchid |-> nxt,
             touchids |-> ids,
             assigned |->
                CASE down /\ known ->
                        [st.assigned EXCEPT ![ev.dev][slot] =
                                  st.next_touchid]
                  [] ev.type = "TOUCH_UP" /\ known ->
                        [st.assigned EXCEPT ![ev.dev][slot] = -1]
                  [] OTHER -> st.assigned,
             handed |-> IF down THEN Append(st.handed, st.next_touchid)
                        ELSE st.handed]

\* the consumer call appended to the calls of the dispatch
Post(st, call) == [st EXCEPT !.posted = Append(st.posted, call)]

\* In the calls of the pointer and keyboard events, from is the event the
\* call was made for.

\* xf86libinput_handle_motion: xf86PostMotionEventM(dev, Relative, mask)
xf86libinput_handle_motion(st, ev) ==
    Post(st, [dev |-> ev.dev, from |-> ev, call |-> "motion", mode |-> "Relative",
              mask |-> [i \in {0, 1} |-> IF i = 0 THEN ev.x ELSE ev.y]])

\* the test of xf86libinput_handle_absmotion, and the same always passing
AbsAllowedAlways(dd) == TRUE

AbsAllowed(dd) == dd.has_abs

\* xf86libinput_handle_absmotion
xf86libinput_handle_absmotion(st, ev) ==
    IF ~AbsAllowed(driver_data[ev.dev])
    THEN st
    ELSE Post(st, [dev |-> ev.dev, from |-> ev, call |-> "motion", mode |-> "Absolute",
                   mask |-> [i \in {0, 1} |-> IF i = 0 THEN ev.x ELSE ev.y]])

\* xf86libinput_handle_button: xf86PostButtonEvent(dev, Relative, button,
\* is_press, 0, 0)
xf86libinput_handle_button(st, ev) ==
    Post(st, [dev |-> ev.dev, from |-> ev, call |-> "button",
              button |-> btn_linux2xorg(ev.button),
              is_press |-> ev.state = "PRESSED"])

\* xf86libinput_handle_key
xf86libinput_handle_key(st, ev) ==
    Post(st, [dev |-> ev.dev, from |-> ev, call |-> "key",
              key |-> ev.key + XORG_KEYCODE_OFFSET,
              is_press |-> ev.state = "PRESSED"])

\* the value of one axis of a scroll event: the discrete count times the
\* step distance for a wheel, the reported value otherwise; and the same
\* without the step distance
AxisValueUnscaled(source, discrete, value, dist) ==
    IF source = "WHEEL" THEN discrete ELSE value

AxisValue(source, discrete, value, dist) ==
    IF source = "WHEEL" THEN discrete * dist ELSE value

\* xf86libinput_handle_axis: valuator 3 is the vertical axis, valuator 2 the
\* horizontal one
xf86libinput_handle_axis(st, ev) ==
    IF ev.source \notin {"FINGER", "WHEEL", "CONTINUOUS"}
    THEN st
    ELSE LET dd == driver_data[ev.dev]
             axes == (IF ev.has_v THEN {3} ELSE {}) \cup
                     (IF ev.has_h THEN {2} ELSE {})
         IN Post(st, [dev |-> ev.dev, from |-> ev, call |-> "motion", mode |-> "Relative",
                      mask |-> [i \in axes |->
                                  IF i = 3
                                  THEN AxisValue(ev.source, ev.dv, ev.v,
                                                 dd.scroll.vdist)
                                  ELSE AxisValue(ev.source, ev.dh, ev.h,
                                                 dd.scroll.hdist)]])

\* xf86libinput_handle_event, and the same without the test of pInfo and of
\* the on flag
handle_event_unguarded(st, ev) ==
    IF ev.type \in TouchTypes
    THEN xf86libinput_handle_touch(st, ev)
    ELSE st

xf86libinput_handle_event(st, ev) ==
    IF ev.stale \/ ~pInfo[ev.dev].on
    THEN st
    ELSE CASE ev.type \in TouchTypes -> xf86libinput_handle_touch(st, ev)
           [] ev.type = "POINTER_MOTION_ABSOLUTE" ->
                 xf86libinput_handle_absmotion(st, ev)
           [] ev.type = "POINTER_MOTION" -> xf86libinput_handle_motion(st, ev)
           [] ev.type = "POINTER_BUTTON" -> xf86libinput_handle_button(st, ev)
           [] ev.type = "KEYBOARD_KEY" -> xf86libinput_handle_key(st, ev)
           [] ev.type = "POINTER_AXIS" -> xf86libinput_handle_axis(st, ev)
           [] OTHER -> st

\* libinput_get_event: the event that was queued first, and the one that
\* was queued last
libinput_get_eventNewest(q) == q[Len(q)]

libinput_get_event(q) == Head(q)

\* while ((event = libinput_get_event(libinput))) handle_event(event)
RECURSIVE DrainQueue(_, _)
DrainQueue(st, q) ==
    IF q = <<>> THEN st
    ELSE DrainQueue(xf86libinput_handle_event(st, libinput_get_event(q)),
                    Tail(q))

\* the events of q that xf86libinput_handle_event returns from at its first
\* test: no InputInfo behind the handle, or the device is not on
DroppedEvents(q) ==
    Cardinality({i \in 1..Len(q) : q[i].stale \/ ~pInfo[q[i].dev].on})

\* the test of libinput_dispatch's result in xf86libinput_read_input, with
\* the test skipped
DispatchedAlways(rc) == TRUE

\* the test of libinput_dispatch's result in xf86libinput_read_input: the
\* queue is drained unless the result is -EAGAIN or another negative value
Dispatched(rc) == rc \notin {"EAGAIN", "EIO", "ENODEV"}

\* xf86libinput_read_input; rc is the result of libinput_dispatch
ReadInput(rc) ==
    /\ device_enabled_count > 0
    /\ IF Dispatched(rc)
       THEN LET st == DrainQueue([TranslationState EXCEPT !.posted = <<>>],
                                 queue)
            IN /\ queue' = <<>>
               /\ posted' = st.posted
               /\ next_touchid' = st.next_touchid
               /\ touchids' = st.touchids
               /\ assigned' = st.assigned
               /\ handed' = st.handed
       ELSE /\ posted' = <<>>
            /\ UNCHANGED queue
            /\ UNCHANGED translate_vars
    /\ lastcall' = [kind |-> "read", rc |-> rc,
                    dropped |-> IF Dispatched(rc) THEN DroppedEvents(queue)
                                ELSE 0]
    /\ UNCHANGED <<contacts, nwrites, uaf>>
    /\ UNCHANGED lifecycle_vars

\* touch-downs that are queued and will be translated
QueuedDowns ==
    Cardinality({i \in 1..Len(queue) :
                    queue[i].type = "TOUCH_DOWN" /\ ~queue[i].stale})

\* the event source queues a touch event of an attached device; a slot
\* goes down only when it is up, and moves or goes up only when it is down
EmitTouch(d, type, slot) ==
    /\ pInfo[d].stage = "on"
    /\ pInfo[d].pd.cap_touch
    /\ Len(queue) < MaxQueue
    /\ IF type = "TOUCH_DOWN"
       THEN /\ slot \notin contacts[d]
            /\ next_touchid + QueuedDowns < MaxTouchId
       ELSE slot \in contacts[d]
    /\ queue' = Append(queue,
                       [dev |-> d, stale |-> FALSE, type |-> type,
                        slot |-> slot])
    /\ contacts' = [contacts EXCEPT ![d] =
                      CASE type = "TOUCH_DOWN" -> contacts[d] \cup {slot}
                        [] type \in {"TOUCH_UP", "TOUCH_CANCEL"} ->
                              contacts[d] \ {slot}
                        [] OTHER -> contacts[d]]
    /\ lastcall' = NoCall
    /\ posted' = <<>>
    /\ UNCHANGED <<nwrites, uaf>>
    /\ UNCHANGED translate_vars
    /\ UNCHANGED lifecycle_vars

\* an event of the event source, all fields at rest
BaseEvent(d, type) ==
    [dev |-> d, stale |-> FALSE, type |-> type, x |-> 0, y |-> 0,
     button |-> 0, state |-> "RELEASED", key |-> 0, source |-> "NONE",
     has_v |-> FALSE, has_h |-> FALSE, dv |-> 0, dh |-> 0, v |-> 0, h |-> 0]

\* device codes of buttons: no button, the named mouse buttons, BTN_0
\* (0x100) and two codes between BTN_9 and BTN_LEFT
ButtonCodes == {0, BTN_LEFT, BTN_RIGHT, BTN_MIDDLE, BTN_SIDE, BTN_EXTRA,
                256, 268, 270}

\* the button events the event source reports in the model
ButtonEvents(d) ==
    {[BaseEvent(d, "POINTER_BUTTON") EXCEPT !.button = b, !.state = p] :
        b \in ButtonCodes, p \in {"PRESSED", "RELEASED"}}

\* the motion, key and scroll events the event source reports in the model
PointerEvents(d) ==
    {[BaseEvent(d, "POINTER_MOTION") EXCEPT !.x = 1, !.y = -1],
     [BaseEvent(d, "POINTER_MOTION_ABSOLUTE") EXCEPT !.x = 5, !.y = 7],
     [BaseEvent(d, "KEYBOARD_KEY") EXCEPT !.key = 30, !.state = "PRESSED"]}
    \cup {[BaseEvent(d, "POINTER_AXIS") EXCEPT
              !.source = "WHEEL", !.has_v = TRUE, !.dv = n, !.v = 7] :
            n \in {-1, 2}}
    \cup {[BaseEvent(d, "POINTER_AXIS") EXCEPT
              !.source = "WHEEL", !.has_h = TRUE, !.dh = 1, !.h = 7],
          [BaseEvent(d, "POINTER_AXIS") EXCEPT
              !.source = "WHEEL", !.has_v = TRUE, !.has_h = TRUE,
              !.dv = 1, !.dh = -2, !.v = 7, !.h = -14],
          [BaseEvent(d, "POINTER_AXIS") EXCEPT
              !.source = "FINGER", !.has_v = TRUE, !.v = 3],
          [BaseEvent(d, "POINTER_AXIS") EXCEPT
              !.source = "CONTINUOUS", !.has_h = TRUE, !.h = -4],
          [BaseEvent(d, "POINTER_AXIS") EXCEPT
              !.source = "OTHER", !.has_v = TRUE, !.v = 3]}

\* the event source queues a pointer or keyboard event of an attached device
EmitPointer(d, ev) ==
    /\ pInfo[d].stage = "on"
    /\ Len(queue) < MaxQueue
    /\ queue' = Append(queue, ev)
    /\ lastcall' = NoCall
    /\ posted' = <<>>
    /\ UNCHANGED <<contacts, nwrites, uaf>>
    /\ UNCHANGED translate_vars
    /\ UNCHANGED lifecycle_vars

(***************************************************************************)
(* The touch specification: two touch devices, enabled and disabled at     *)
(* will, their touch events interleaved in one queue                       *)
(***************************************************************************)
TouchNext ==
    \/ \E d \in Devs : PreInit(d, TouchscreenDevice, NoOptions, FALSE)
    \/ \E d \in Devs : DeviceInit(d)
    \/ \E d \in Devs : DeviceOn(d)
    \/ \E d \in Devs : DeviceOff(d)
    \/ \E d \in Devs, t \in {"TOUCH_DOWN", "TOUCH_UP", "TOUCH_MOTION"},
          s \in Slots : EmitTouch(d, t, s)
    \/ ReadInput("ok")

SpecTouch == Init /\ [][TouchNext]_vars


\* the same with one touch device only
TouchOneNext ==
    \/ PreInit("d1", TouchscreenDevice, NoOptions, FALSE)
    \/ DeviceInit("d1")
    \/ DeviceOn("d1")
    \/ DeviceOff("d1")
    \/ \E t \in {"TOUCH_DOWN", "TOUCH_UP", "TOUCH_MOTION", "TOUCH_CANCEL"},
          s \in Slots : EmitTouch("d1", t, s)
    \/ \E rc \in {"ok", "EAGAIN"} : ReadInput(rc)

SpecTouchOne == Init /\ [][TouchOneNext]_vars

\* the touches that are open: begun for the consumer and not ended
OpenTouches == {ds \in Devs \X Slots : assigned[ds[1]][ds[2]] >= 0}

TouchCalls(types) ==
    {i \in 1..Len(posted) :
        posted[i].call = "touch" /\ posted[i].type \in types}

(***************************************************************************)
(* C1: with touch events of several enabled devices interleaved, a         *)
(* touch-update or touch-end forwarded for a (device, slot) carries the    *)
(* identity that was handed out at the most recent touch-down of that      *)
(* same device and slot: a touch-down on another device never replaces it. *)
(***************************************************************************)
C1_IdentityOfOwnTouchDown ==
    \A i \in TouchCalls({"XI_TouchUpdate", "XI_TouchEnd"}) :
        posted[i].id = posted[i].given

(***************************************************************************)
(* C2: identities are handed out from one counter in strictly increasing   *)
(* order, and no two touches that are open at the same time, on whatever   *)
(* devices and slots, were given the same identity.                        *)
(***************************************************************************)
C2_OpenTouchesDistinct ==
    /\ \A i, j \in 1..Len(handed) : i < j => handed[i] < handed[j]
    /\ \A i \in 1..Len(handed) : handed[i] < next_touchid
    /\ \A t, u \in OpenTouches :
          t # u => assigned[t[1]][t[2]] # assigned[u[1]][u[2]]
    /\ \A i \in TouchCalls({"XI_TouchBegin"}) :
          posted[i].id = posted[i].given

\* touches are open on both devices at once, on the same slot
C2_Witness ==
    /\ assigned["d1"][0] >= 0
    /\ assigned["d2"][0] >= 0
    /\ Len(handed) >= 2

(***************************************************************************)
(* C3: on a single device, with slot a put down, then slot b put down and  *)
(* a lifted while b is still down, a and b were given distinct identities  *)
(* in increasing order and the touch-end forwarded for a carries the       *)
(* identity of a, not that of b.                                           *)
(***************************************************************************)
C3_SingleDeviceTwoSlots ==
    /\ \A i, j \in 1..Len(handed) : i < j => handed[i] < handed[j]
    /\ \A i \in TouchCalls({"XI_TouchEnd"}) :
          /\ posted[i].id = posted[i].given
          /\ \A b \in Slots \ {posted[i].slot} :
                assigned[posted[i].dev][b] >= 0
                    => posted[i].id # assigned[posted[i].dev][b]

\* slot a was lifted while slot b, put down after it, is still down
C3_Witness ==
    \E i \in TouchCalls({"XI_TouchEnd"}) :
        \E b \in Slots \ {posted[i].slot} :
            /\ assigned[posted[i].dev][b] > posted[i].id
            /\ posted[i].id = posted[i].given

(***************************************************************************)
(* The resolution specification: one device of any profile, any of its     *)
(* setters refused, opened with any option set, then initialised, enabled  *)
(* and disabled                                                            *)
(***************************************************************************)
ResolveNext ==
    \/ /\ pInfo["d1"].stage = "none"
       /\ \E pd \in Profiles \cup Refusing(Profiles), uo \in UserOptions,
             sfd \in BOOLEAN : PreInit("d1", pd, uo, sfd)
    \/ DeviceInit("d1")
    \/ DeviceOn("d1")
    \/ DeviceOff("d1")

SpecResolve == Init /\ [][ResolveNext]_vars

\* the OptionSet field of an option of the device abstraction
OptionField ==
    [tap |-> "tapping", drag_lock |-> "tap_drag_lock", speed |-> "speed",
     natscroll |-> "natural_scrolling", sendevents |-> "sendevents",
     left |-> "left_handed", scroll_method |-> "scroll_method",
     scroll_button |-> "scroll_button", click_method |-> "click_method",
     middle |-> "middle_emulation", halfkey |-> "halfkey",
     matrix |-> "matrix"]

\* the disabled / no-op value of each option
FixedValue ==
    [tap |-> 0, drag_lock |-> 0, speed |-> 0, natscroll |-> 0,
     sendevents |-> LIBINPUT_CONFIG_SEND_EVENTS_ENABLED, left |-> 0,
     scroll_method |-> LIBINPUT_CONFIG_SCROLL_NO_SCROLL,
     scroll_button |-> 0,
     click_method |-> LIBINPUT_CONFIG_CLICK_METHOD_NONE,
     middle |-> 0, halfkey |-> 0, matrix |-> Identity9]

\* the device's capability set does not support the option
Lacks(pd, opt) ==
    CASE opt \in {"tap", "drag_lock"} -> pd.tap_fingers = 0
      [] opt = "speed" -> ~pd.accel
      [] opt = "natscroll" -> ~pd.natscroll
      [] opt = "sendevents" -> pd.se_modes = 0
      [] opt = "left" -> ~pd.left
      [] opt = "scroll_method" -> pd.scroll_methods = 0
      [] opt = "scroll_button" -> pd.scroll_methods \notin {4, 5, 6, 7}
      [] opt = "click_method" -> pd.click_methods = 0
      [] opt = "middle" -> ~pd.middle
      [] opt = "halfkey" -> ~pd.halfkey
      [] opt = "matrix" -> ~pd.calib

\* the OptionSet value of an option denotes the value the handle holds
SameValue(opt, options, cfg) ==
    LET v == options[OptionField[opt]]
    IN CASE opt \in {"natscroll", "left", "middle", "halfkey", "tap",
                     "drag_lock"} -> (v # 0) = (cfg[opt] # 0)
         [] opt = "scroll_button" -> v = btn_linux2xorg(cfg.scroll_button)
         [] opt = "matrix" -> SubSeq(v, 1, 6) = cfg.matrix
         [] OTHER -> v = cfg[opt]

(***************************************************************************)
(* C4: for every option the device's capability set does not support,      *)
(* option resolution yields the fixed disabled / no-op value of that       *)
(* option, whatever the configuration says.                                *)
(***************************************************************************)
C4_UnsupportedResolvesFixed ==
    \A d \in Devs :
        pInfo[d].stage # "none" =>
            \A opt \in OptNames :
                Lacks(pInfo[d].pd, opt) =>
                    driver_data[d].options[OptionField[opt]] = FixedValue[opt]

\* a device with no scroll method was opened with ScrollMethod "edge", and
\* one with no tapping with Tapping "on"
C4_Witness ==
    /\ pInfo["d1"].stage = "preinit"
    /\ \/ /\ pInfo["d1"].pd.scroll_methods = 0
          /\ pInfo["d1"].uo.ScrollMethod = <<S_edge>>
          /\ driver_data["d1"].options.scroll_method =
                LIBINPUT_CONFIG_SCROLL_NO_SCROLL
       \/ /\ pInfo["d1"].pd.tap_fingers = 0
          /\ pInfo["d1"].uo.Tapping = <<1>>
          /\ driver_data["d1"].options.tapping = 0

(***************************************************************************)
(* C5: after option resolution at device open, for every option the        *)
(* device supports, the OptionSet value is the value the device handle     *)
(* holds, scroll method and click method included.                         *)
(***************************************************************************)
C5_ResolvedEqualsDevice ==
    \A d \in Devs :
        pInfo[d].stage = "preinit" =>
            \A opt \in OptNames :
                ~Lacks(pInfo[d].pd, opt) =>
                    SameValue(opt, driver_data[d].options, handle[d].cfg)

(***************************************************************************)
(* C6: when the configuration names a scroll method the device does not    *)
(* support, the resolved scroll method is the method the device has, which *)
(* is one of the supported ones.                                           *)
(***************************************************************************)
C6_UnsupportedScrollRejected ==
    \A d \in Devs :
        pInfo[d].stage = "preinit" =>
            \A req \in {<<S_twofinger, LIBINPUT_CONFIG_SCROLL_2FG>>,
                         <<S_edge, LIBINPUT_CONFIG_SCROLL_EDGE>>,
                         <<S_button, LIBINPUT_CONFIG_SCROLL_ON_BUTTON_DOWN>>} :
                (/\ pInfo[d].uo.ScrollMethod = <<req[1]>>
                 /\ BitAnd(pInfo[d].pd.scroll_methods, req[2]) = 0)
                => /\ driver_data[d].options.scroll_method =
                        handle[d].cfg.scroll_method
                   /\ BitAnd(pInfo[d].pd.scroll_methods,
                             driver_data[d].options.scroll_method) =
                        driver_data[d].options.scroll_method

(***************************************************************************)
(* The property specification: one device, opened with the options of its  *)
(* profile, enabled and disabled at will, with property requests           *)
(***************************************************************************)
RefusingTapDevice == [FullDevice EXCEPT !.name = "refusing",
                                        !.refuse = {"tap"}]

PropProfiles == {FullDevice, TouchpadDevice, KeyboardDevice,
                 RefusingTapDevice}

Requests ==
    {<<"prop_tap", Val(8, "XA_INTEGER", <<v>>)>> : v \in {0, 1, 2}}
    \cup {<<"prop_tap", Val(32, "XA_INTEGER", <<1>>)>>,
          <<"prop_tap_drag_lock", Val(8, "XA_INTEGER", <<1>>)>>,
          <<"prop_natural_scroll", Val(8, "XA_INTEGER", <<0>>)>>,
          <<"prop_middle_emulation", Val(8, "XA_INTEGER", <<1>>)>>,
          <<"prop_halfkey", Val(8, "XA_INTEGER", <<1>>)>>}
    \cup {<<"prop_left_handed", Val(8, "XA_INTEGER", <<v>>)>> : v \in {0, 2}}
    \cup {<<"prop_accel", Val(32, "prop_float", <<v>>)>> : v \in {-3, -2, 2}}
    \cup {<<"prop_accel", Val(32, "XA_INTEGER", <<1>>)>>,
          <<"prop_calibration",
            Val(32, "prop_float", <<1, 0, 0, 0, 1, 0, 0, 0, 2>>)>>,
          <<"prop_calibration",
            Val(32, "prop_float", <<2, 0, 0, 0, 2, 0, 1, 0, 2>>)>>,
          <<"prop_calibration",
            Val(32, "prop_float", <<1, 0, 0, 0, 1, 0>>)>>}
    \cup {<<"prop_sendevents_enabled", Val(8, "XA_INTEGER", v)>> :
            v \in {<<1, 0>>, <<1, 1>>, <<0, 2>>, <<1>>}}
    \cup {<<"prop_scroll_method_enabled", Val(8, "XA_INTEGER", v)>> :
            v \in {<<1, 0, 0>>, <<0, 0, 1>>, <<1, 1, 0>>, <<0, 0, 0>>}}
    \cup {<<"prop_scroll_button", Val(32, "XA_CARDINAL", <<v>>)>> :
            v \in {1, 2, 12}}
    \cup {<<"prop_click_method_enabled", Val(8, "XA_INTEGER", v)>> :
            v \in {<<0, 1>>, <<1, 0>>, <<1, 1>>}}
    \cup {<<"prop_sendevents_available", Val(8, "XA_INTEGER", <<1, 1>>)>>,
          <<"prop_tap_default", Val(8, "XA_INTEGER", <<1>>)>>,
          <<"Device Enabled", Val(8, "XA_INTEGER", <<1>>)>>}

PropsNext ==
    \/ /\ pInfo["d1"].stage = "none"
       /\ \E pd \in PropProfiles : PreInit("d1", pd, NoOptions, FALSE)
    \/ DeviceInit("d1")
    \/ DeviceOn("d1")
    \/ DeviceOff("d1")
    \/ /\ nwrites < MaxWrites
       /\ \E rq \in Requests : PropertyCheck("d1", rq[1], rq[2])
    \/ PropertyCommit("d1")

SpecProps == Init /\ [][PropsNext]_vars

\* the value the Configuration Applier hands to the device for an option
AppliedValue(opt, options) ==
    IF opt = "scroll_button" THEN btn_xorg2linux(options.scroll_button)
    ELSE options[OptionField[opt]]

\* the Configuration Applier calls the device's setter of the option
ApplierSets(pd, opt) ==
    opt \in {"scroll_method", "click_method"} \/ ~Lacks(pd, opt)

(***************************************************************************)
(* C7: whenever the device refuses a value handed to it (at option         *)
(* resolution, by the Configuration Applier at init or enable, or by the   *)
(* apply that follows a property commit), the OptionSet is brought back to *)
(* the value the device holds: once the applier has run, the OptionSet     *)
(* holds no value that the device refuses and does not have.               *)
(***************************************************************************)
C7_RefusedValueReadBack ==
    \A d \in Devs :
        pInfo[d].stage \in {"init", "on"} =>
            \A opt \in OptNames :
                (/\ ApplierSets(pInfo[d].pd, opt)
                 /\ ~DevAccepts(pInfo[d].pd, opt,
                                AppliedValue(opt, driver_data[d].options)))
                => SameValue(opt, driver_data[d].options, handle[d].cfg)

\* the request of the last property call
LastIs(kind, atom, data) ==
    /\ lastcall.kind = kind
    /\ lastcall.atom = atom
    /\ lastcall.val.data = data

C9_CommitAppliesInSameCall ==
    \A d \in Devs :
        /\ (/\ lastcall.kind = "commit"
            /\ lastcall.dev = d
            /\ lastcall.atom \in WritableAtoms
            /\ lastcall.rc = Success) => lastcall.applied
        /\ pInfo[d].stage = "on" =>
              handle[d].cfg = LibinputApplyConfig(pInfo[d].pd, handle[d].cfg,
                                                  driver_data[d].options)

\* tapping was committed on a device that had it off, and the device has it
C9_Witness ==
    /\ LastIs("commit", "prop_tap", <<1>>)
    /\ lastcall.rc = Success
    /\ pInfo["d1"].pd.dflt.tap = 0
    /\ driver_data["d1"].options.tapping = 1
    /\ handle["d1"].cfg.tap = 1

\* the OptionSet field of a writable property
PropertyField ==
    [prop_tap |-> "tapping", prop_tap_drag_lock |-> "tap_drag_lock",
     prop_calibration |-> "matrix", prop_accel |-> "speed",
     prop_natural_scroll |-> "natural_scrolling",
     prop_sendevents_enabled |-> "sendevents",
     prop_left_handed |-> "left_handed",
     prop_scroll_method_enabled |-> "scroll_method",
     prop_scroll_button |-> "scroll_button",
     prop_click_method_enabled |-> "click_method",
     prop_middle_emulation |-> "middle_emulation",
     prop_halfkey |-> "halfkey"]

\* the items of a property that reads back an OptionSet value: one flag per
\* item for the mode properties, the value itself for the others
ReadBack(atom, v) ==
    LET flag(b) == IF BitAnd(v, b) # 0 THEN 1 ELSE 0
    IN CASE atom \in {"prop_sendevents_enabled",
                      "prop_click_method_enabled"} -> <<flag(1), flag(2)>>
         [] atom = "prop_scroll_method_enabled" ->
                <<flag(1), flag(2), flag(4)>>
         [] atom = "prop_calibration" -> v
         [] OTHER -> <<v>>

\* the items as flags: 0 stays 0, anything else is 1
AsFlags(data) == [i \in 1..Len(data) |-> IF data[i] # 0 THEN 1 ELSE 0]

(***************************************************************************)
(* C10: a value that passed the check and was committed is what the        *)
(* OptionSet field of the property holds, so reading it back yields the    *)
(* value written; a rejected request (wrong format or cardinality, value   *)
(* out of range) leaves the OptionSet as it was.                           *)
(***************************************************************************)
C10_PropertyRoundTrip ==
    [][/\ (/\ lastcall'.kind = "commit"
           /\ lastcall'.atom \in WritableAtoms
           /\ lastcall'.rc = Success)
          => ReadBack(lastcall'.atom,
                      driver_data'[lastcall'.dev].options[
                          PropertyField[lastcall'.atom]])
             = IF lastcall'.atom \in {"prop_sendevents_enabled",
                                      "prop_scroll_method_enabled",
                                      "prop_click_method_enabled"}
               THEN AsFlags(lastcall'.val.data)
               ELSE lastcall'.val.data
       /\ (/\ lastcall'.kind \in {"check", "commit"}
           /\ lastcall'.rc # Success)
          => driver_data' = driver_data
       /\ lastcall'.kind = "commit" => lastcall'.rc = Success]_vars

\* both send-events flags were written and the OptionSet holds both modes
C10_Witness ==
    /\ LastIs("commit", "prop_sendevents_enabled", <<1, 1>>)
    /\ lastcall.rc = Success
    /\ driver_data["d1"].options.sendevents = 3
    /\ nwrites = 2

(***************************************************************************)
(* The handler specification: the property handler called the way the      *)
(* server calls it (check, then commit of an accepted value) and, for the  *)
(* properties no handler of the driver stores, called in commit mode as    *)
(* well, since the handler's answer for them does not depend on the mode   *)
(***************************************************************************)
\* LibinputSetProperty(dev, atom, val, FALSE) for a property the driver has
\* no store for
PropertyCommitUnchecked(d, atom, val) ==
    /\ pInfo[d].stage \in {"on", "off"}
    /\ nwrites < MaxWrites
    /\ atom \notin WritableAtoms
    /\ LET r == LibinputSetProperty(driver_data[d], handle[d].cfg,
                                    pInfo[d].pd, atom, val, FALSE)
       IN /\ driver_data' = [driver_data EXCEPT ![d].options = r.options]
          /\ handle' = [handle EXCEPT ![d].cfg = r.cfg]
          /\ lastcall' = [kind |-> "set", dev |-> d, atom |-> atom,
                          val |-> val, rc |-> r.rc, applied |-> r.applied]
    /\ nwrites' = nwrites + 1
    /\ posted' = <<>>
    /\ UNCHANGED <<libinput, device_enabled_count, server_fds, enabled_fds,
                   pInfo, uaf>>
    /\ UNCHANGED event_vars

\* a write to each of the properties the driver publishes and does not store
ReadOnlyRequests ==
    {<<a, Val(8, "XA_INTEGER", <<1>>)>> : a \in ReadOnlyAtoms}

\* a well-formed write of the disabled value to each writable property
DisabledRequests ==
    {<<a, Val(8, "XA_INTEGER", <<0>>)>> :
        a \in {"prop_tap", "prop_tap_drag_lock", "prop_natural_scroll",
               "prop_left_handed", "prop_middle_emulation", "prop_halfkey"}}
    \cup {<<"prop_calibration", Val(32, "prop_float", Identity9)>>,
          <<"prop_accel", Val(32, "prop_float", <<0>>)>>,
          <<"prop_sendevents_enabled", Val(8, "XA_INTEGER", <<0, 0>>)>>,
          <<"prop_scroll_method_enabled", Val(8, "XA_INTEGER", <<0, 0, 0>>)>>,
          <<"prop_scroll_button", Val(32, "XA_CARDINAL", <<0>>)>>,
          <<"prop_click_method_enabled", Val(8, "XA_INTEGER", <<0, 0>>)>>}

HandlerRequests == Requests \cup ReadOnlyRequests \cup DisabledRequests

HandlerNext ==
    \/ /\ pInfo["d1"].stage = "none"
       /\ \E pd \in PropProfiles : PreInit("d1", pd, NoOptions, FALSE)
    \/ DeviceInit("d1")
    \/ DeviceOn("d1")
    \/ DeviceOff("d1")
    \/ /\ nwrites < MaxWrites
       /\ \E rq \in HandlerRequests : PropertyCheck("d1", rq[1], rq[2])
    \/ PropertyCommit("d1")
    \/ /\ nwrites < MaxWrites
       /\ \E rq \in HandlerRequests :
             PropertyCommitUnchecked("d1", rq[1], rq[2])

SpecHandler == Init /\ [][HandlerNext]_vars

\* the attributes the driver publishes for reading only: the three
\* availability sets, the default of every writable option, the device node
\* and the product id
ReadOnlyAttributes ==
    {"prop_sendevents_available", "prop_scroll_methods_available",
     "prop_click_methods_available", "prop_device", "prop_product_id"}
    \cup {"prop_tap_default", "prop_tap_drag_lock_default",
          "prop_calibration_default", "prop_accel_default",
          "prop_natural_scroll_default", "prop_sendevents_default",
          "prop_left_handed_default", "prop_scroll_method_default",
          "prop_scroll_button_default", "prop_click_method_default",
          "prop_middle_emulation_default", "prop_halfkey_default"}

(***************************************************************************)
(* C11: a write to a read-only attribute (an availability set, a default,  *)
(* the device node, the product id) is answered with BadAccess in check    *)
(* mode and in commit mode, the applier is not invoked and no state of the *)
(* driver or of the device changes.                                        *)
(***************************************************************************)
C11_ReadOnlyRejected ==
    [][(/\ lastcall'.kind \in {"check", "set"}
        /\ lastcall'.atom \in ReadOnlyAttributes)
       => /\ lastcall'.rc = BadAccess
          /\ ~lastcall'.applied
          /\ UNCHANGED <<driver_data, handle, pInfo, libinput,
                         device_enabled_count, server_fds, enabled_fds,
                         queue, next_touchid, touchids>>]_vars

\* a default was written in commit mode on an enabled device, after a check
\* of an availability set
C11_Witness ==
    /\ lastcall.kind = "set"
    /\ lastcall.atom = "prop_scroll_method_default"
    /\ lastcall.rc = BadAccess
    /\ pInfo["d1"].stage = "on"
    /\ nwrites = 2


\* the option of the device abstraction a capability-gated property writes
GatedOption ==
    [prop_tap |-> "tap", prop_tap_drag_lock |-> "drag_lock",
     prop_calibration |-> "matrix", prop_accel |-> "speed",
     prop_natural_scroll |-> "natscroll", prop_left_handed |-> "left",
     prop_scroll_method_enabled |-> "scroll_method",
     prop_scroll_button |-> "scroll_button",
     prop_click_method_enabled |-> "click_method",
     prop_middle_emulation |-> "middle", prop_halfkey |-> "halfkey"]

\* format, number of items and type of each writable property
PropertyFormat ==
    LET F(f, n, t) == [f |-> f, n |-> n, t |-> t]
    IN [prop_tap |-> F(8, 1, "XA_INTEGER"),
        prop_tap_drag_lock |-> F(8, 1, "XA_INTEGER"),
        prop_calibration |-> F(32, 9, "prop_float"),
        prop_accel |-> F(32, 1, "prop_float"),
        prop_natural_scroll |-> F(8, 1, "XA_INTEGER"),
        prop_sendevents_enabled |-> F(8, 2, "XA_INTEGER"),
        prop_left_handed |-> F(8, 1, "XA_INTEGER"),
        prop_scroll_method_enabled |-> F(8, 3, "XA_INTEGER"),
        prop_scroll_button |-> F(32, 1, "XA_CARDINAL"),
        prop_click_method_enabled |-> F(8, 2, "XA_INTEGER"),
        prop_middle_emulation |-> F(8, 1, "XA_INTEGER"),
        prop_halfkey |-> F(8, 1, "XA_INTEGER")]

\* the request has the format, the cardinality and the type of its property
WellFormed(atom, val) ==
    /\ val.format = PropertyFormat[atom].f
    /\ val.size = PropertyFormat[atom].n
    /\ val.type = PropertyFormat[atom].t

(***************************************************************************)
(* C12: for every capability-gated option (tap, tap drag lock,             *)
(* calibration, acceleration, natural scroll, left-handed, scroll method,  *)
(* scroll button, click method, middle emulation, accessibility key        *)
(* repeat) a well-formed write checked against a device that lacks the     *)
(* capability is rejected, whatever the value written, the disabled value  *)
(* 0 included.                                                             *)
(***************************************************************************)
C12_LackingCapabilityRejected ==
    (/\ lastcall.kind = "check"
     /\ lastcall.atom \in DOMAIN GatedOption
     /\ WellFormed(lastcall.atom, lastcall.val)
     /\ Lacks(pInfo[lastcall.dev].pd, GatedOption[lastcall.atom]))
    => lastcall.rc # Success


\* the option of the device abstraction each writable property writes
PropertyOption ==
    [a \in WritableAtoms |->
        IF a = "prop_sendevents_enabled" THEN "sendevents"
        ELSE GatedOption[a]]

\* the items of a well-formed request are in the range of the property
InRange(atom, val) ==
    CASE atom \in {"prop_tap", "prop_tap_drag_lock", "prop_natural_scroll",
                   "prop_left_handed", "prop_middle_emulation",
                   "prop_halfkey"} -> val.data[1] \in {0, 1}
      [] atom = "prop_accel" -> val.data[1] >= -2 /\ val.data[1] <= 2
      [] atom = "prop_calibration" ->
            val.data[7] = 0 /\ val.data[8] = 0 /\ val.data[9] = 2
      [] atom \in {"prop_scroll_method_enabled",
                   "prop_click_method_enabled"} ->
            Cardinality({i \in 1..Len(val.data) : val.data[i] # 0}) <= 1
      [] OTHER -> TRUE

\* a check rejected for the format, the type or the cardinality of the value
FormatRejection(c) ==
    /\ c.kind = "check"
    /\ c.atom \in WritableAtoms
    /\ c.rc # Success
    /\ ~WellFormed(c.atom, c.val)

\* a check rejected for the range of the value
RangeRejection(c) ==
    /\ c.kind = "check"
    /\ c.atom \in WritableAtoms
    /\ c.rc # Success
    /\ WellFormed(c.atom, c.val)
    /\ ~InRange(c.atom, c.val)

\* a check of a well-formed value in range rejected on an attached device
\* that lacks the capability
CapabilityRejection(c) ==
    /\ c.kind = "check"
    /\ c.atom \in WritableAtoms
    /\ c.rc # Success
    /\ WellFormed(c.atom, c.val)
    /\ InRange(c.atom, c.val)
    /\ pInfo[c.dev].stage = "on"
    /\ Lacks(pInfo[c.dev].pd, PropertyOption[c.atom])

(***************************************************************************)
(* C13: for every writable property, the code a check returns for a        *)
(* capability mismatch differs from the code it returns for a format,      *)
(* type or cardinality error and from the code it returns for a range      *)
(* error of that property: of two checks of one property made one after    *)
(* the other, the first rejected for format or range and the second for    *)
(* the capability, the two codes differ.                                   *)
(***************************************************************************)
C13_MismatchCodeDistinct ==
    [][(/\ lastcall.kind = "check"
        /\ lastcall'.kind = "check"
        /\ lastcall'.atom = lastcall.atom
        /\ FormatRejection(lastcall) \/ RangeRejection(lastcall)
        /\ CapabilityRejection(lastcall'))
       => lastcall'.rc # lastcall.rc]_vars


\* the request selects more than one flag of a mode property
SelectsSeveral(c) ==
    /\ c.atom \in {"prop_scroll_method_enabled", "prop_click_method_enabled"}
    /\ WellFormed(c.atom, c.val)
    /\ Cardinality({i \in 1..Len(c.val.data) : c.val.data[i] # 0}) > 1

(***************************************************************************)
(* C14: a check of a scroll-method or click-method write that selects more *)
(* than one flag is rejected, and in every state reached by option         *)
(* resolution and by checked-then-committed writes the scroll method and   *)
(* the click method of the OptionSet have at most one bit set.             *)
(***************************************************************************)
C14_AtMostOneMethod ==
    /\ (lastcall.kind = "check" /\ SelectsSeveral(lastcall))
          => lastcall.rc = BadValue
    /\ \A d \in Devs :
          /\ Cardinality(Bits(driver_data[d].options.scroll_method)) <= 1
          /\ Cardinality(Bits(driver_data[d].options.click_method)) <= 1

\* button scrolling was committed on a device that came up with edge
\* scrolling, and the check of two scroll flags that followed was rejected
C14_Witness ==
    /\ LastIs("check", "prop_scroll_method_enabled", <<1, 1, 0>>)
    /\ lastcall.rc = BadValue
    /\ pInfo["d1"].stage = "on"
    /\ pInfo["d1"].pd.dflt.scroll_method = LIBINPUT_CONFIG_SCROLL_EDGE
    /\ driver_data["d1"].options.scroll_method
          = LIBINPUT_CONFIG_SCROLL_ON_BUTTON_DOWN


(***************************************************************************)
(* C15: once the Configuration Applier has run on a handle (at init, at    *)
(* enable), running it again with the same OptionSet leaves the handle's   *)
(* configuration as the first run left it, for every OptionSet the         *)
(* resolver produces and every capability set, refused setters included.   *)
(* The applier writes nothing but the handle's configuration.              *)
(***************************************************************************)
C15_ApplierIdempotent ==
    \A d \in Devs :
        pInfo[d].stage \in {"init", "on"} =>
            LibinputApplyConfig(pInfo[d].pd, handle[d].cfg,
                                driver_data[d].options) = handle[d].cfg

\* an enabled device whose handle the applier moved away from the
\* configuration a fresh handle has, with a setter that refuses its value
C15_Witness ==
    /\ pInfo["d1"].stage = "on"
    /\ handle["d1"].cfg # pInfo["d1"].pd.dflt
    /\ handle["d1"].cfg.natscroll # pInfo["d1"].pd.dflt.natscroll
    /\ \E opt \in OptNames :
          /\ ApplierSets(pInfo["d1"].pd, opt)
          /\ ~DevAccepts(pInfo["d1"].pd, opt,
                         AppliedValue(opt, driver_data["d1"].options))


\* the events of the queue that are for an enabled device with its
\* consumer-side handle
LiveEvents ==
    {i \in 1..Len(queue) : ~queue[i].stale /\ pInfo[queue[i].dev].on}

(***************************************************************************)
(* C16: when the queue is dispatched, an event for a device that is not    *)
(* enabled, or whose handle has no consumer-side device behind it, makes   *)
(* no consumer call, consumes no touch identity and writes no slot         *)
(* mapping: the calls made, the identities handed out and the slots        *)
(* written are those of the other events of the queue.                     *)
(***************************************************************************)
C16_DroppedEventsHaveNoEffect ==
    [][(queue # <<>> /\ queue' = <<>>) =>
         LET downs == {i \in LiveEvents : queue[i].type = "TOUCH_DOWN"}
         IN /\ Len(posted') =
                  Cardinality({i \in LiveEvents :
                      queue[i].type \in {"TOUCH_DOWN", "TOUCH_UP",
                                         "TOUCH_MOTION"}})
            /\ \A k \in 1..Len(posted') : pInfo[posted'[k].dev].on
            /\ Len(handed') = Len(handed) + Cardinality(downs)
            /\ \A s \in DOMAIN touchids :
                  touchids'[s] # touchids[s] =>
                      \E i \in downs : queue[i].slot = s
            /\ LiveEvents = {} =>
                  /\ posted' = <<>>
                  /\ UNCHANGED translate_vars]_vars

\* a dispatch dropped an event and forwarded another
C16_Witness ==
    /\ lastcall.kind = "read"
    /\ lastcall.dropped > 0
    /\ Len(posted) > 0
    /\ \E d \in Devs : pInfo[d].stage = "off"


(***************************************************************************)
(* The lifecycle specification: two devices opened (with or without a      *)
(* descriptor of the server, the open succeeding or failing), initialised, *)
(* enabled (succeeding or failing), disabled and uninitialised in any      *)
(* interleaving                                                            *)
(***************************************************************************)
LifecycleNext ==
    \/ \E d \in Devs, pd \in {MouseDevice, KeyboardDevice}, sfd \in BOOLEAN :
          PreInit(d, pd, NoOptions, sfd)
    \/ \E d \in Devs, why \in {"valuators", "nopath", "add_device"},
          sfd \in BOOLEAN :
          PreInitFail(d, why, sfd)
    \/ \E d \in Devs : DeviceInit(d)
    \/ \E d \in Devs : DeviceOn(d)
    \/ \E d \in Devs : DeviceOnFail(d)
    \/ \E d \in Devs : DeviceOff(d)
    \/ \E d \in Devs : UnInit(d)

SpecLifecycle == Init /\ [][LifecycleNext]_vars

\* the devices whose on flag is set
OnDevices == {d \in Devs : pInfo[d].on}

(***************************************************************************)
(* C17: in every state the descriptor of the shared context is registered  *)
(* with the server's readiness mechanism exactly when a device is enabled, *)
(* and the enabled count is the number of devices whose on flag is set;    *)
(* the descriptor is registered only by the step that takes the count from *)
(* 0 to 1 and deregistered only by the step that takes it from 1 to 0,     *)
(* for any interleaving of enables (succeeding or failing) and disables.   *)
(***************************************************************************)
C17_RegisteredIffEnabled ==
    [][/\ device_enabled_count' = Cardinality(OnDevices')
       /\ enabled_fds' = IF device_enabled_count' > 0 THEN {LibinputFd}
                         ELSE {}
       /\ (enabled_fds = {} /\ enabled_fds' # {})
             => (device_enabled_count = 0 /\ device_enabled_count' = 1)
       /\ (enabled_fds # {} /\ enabled_fds' = {})
             => (device_enabled_count = 1 /\ device_enabled_count' = 0)
       /\ (device_enabled_count > 0 /\ device_enabled_count' > 0)
             => enabled_fds' = enabled_fds]_vars

\* both devices are enabled, one of them after an enable of it that failed
C17_Witness ==
    /\ device_enabled_count = 2
    /\ enabled_fds = {LibinputFd}
    /\ \E d \in Devs : pInfo[d].server_fd /\ Len(server_fds) = 2


\* the device instances that exist: opened and not yet uninitialised
LiveInstances == {d \in Devs : pInfo[d].stage \in {"preinit", "init", "on",
                                                    "off"}}

(***************************************************************************)
(* C18: the shared context is created by the first device open, and after  *)
(* any sequence of opens, succeeding or failing, and uninitialisations the *)
(* number of references held on it is the number of live device            *)
(* instances: it exists while an instance is live and is destroyed when    *)
(* the last live instance is uninitialised.  (A failed open counts once    *)
(* the server has uninitialised the instance it was for.)                  *)
(***************************************************************************)
C18_ContextRefsAreLiveInstances ==
    (\A d \in Devs : pInfo[d].stage # "failed")
        => libinput = Cardinality(LiveInstances)

(***************************************************************************)
(* C19: after any sequence of device opens, enables (succeeding or         *)
(* failing) and disables, the Device Registry holds at most one binding    *)
(* per path.                                                               *)
(***************************************************************************)
C19_OneBindingPerPath ==
    \A i, j \in 1..Len(server_fds) :
        server_fds[i].path = server_fds[j].path => i = j


(***************************************************************************)
(* C20: a disable and the enable that follows it change no field of the    *)
(* device's OptionSet, and the enable hands that OptionSet to the handle   *)
(* it attaches: every value the device takes, resolved at open or          *)
(* committed by a property write, is the value the handle holds after the  *)
(* enable, over any number of disable/enable cycles.                       *)
(***************************************************************************)
C20_OptionsSurviveReenable ==
    [][\A d \in Devs :
          /\ (/\ pInfo[d].stage \in {"on", "off"}
              /\ pInfo'[d].stage \in {"on", "off"}
              /\ pInfo'[d].stage # pInfo[d].stage)
             => driver_data'[d].options = driver_data[d].options
          /\ (pInfo[d].stage = "off" /\ pInfo'[d].stage = "on")
             => \A opt \in OptNames :
                   (/\ ApplierSets(pInfo[d].pd, opt)
                    /\ DevAccepts(pInfo[d].pd, opt,
                                  AppliedValue(opt, driver_data[d].options)))
                   => SameValue(opt, driver_data[d].options,
                                handle'[d].cfg)]_vars

\* tapping was switched off by a property write on a device that comes up
\* with tapping on; after a disable and an enable the OptionSet and the new
\* handle have it off
C20_Witness ==
    /\ pInfo["d1"].stage = "on"
    /\ lastcall = NoCall
    /\ nwrites > 0
    /\ pInfo["d1"].pd.dflt.tap = 1
    /\ driver_data["d1"].options.tapping = 0
    /\ handle["d1"].cfg.tap = 0


(***************************************************************************)
(* C21: in every state the last three elements of the calibration matrix   *)
(* of a device's OptionSet are 0, 0, 1: option resolution with a           *)
(* configured matrix of nine values, whatever its last three, and          *)
(* checked-then-committed property writes leave them so.                   *)
(***************************************************************************)
C21_MatrixLastRowFixed ==
    \A d \in Devs :
        pInfo[d].private =>
            SubSeq(driver_data[d].options.matrix, 7, 9) = <<0, 0, 2>>


(***************************************************************************)
(* The pointer specification: one device of a pointer, tablet, full or     *)
(* keyboard profile, enabled and disabled at will, reporting motion, key   *)
(* and scroll events; the dispatch read succeeds or fails                  *)
(***************************************************************************)
PointerProfiles == {MouseDevice, TabletDevice, FullDevice, KeyboardDevice}

\* libinput_dispatch: 0, -EAGAIN, or another negative errno (-EIO; -ENODEV
\* when the stream has ended)
DispatchResults == {"ok", "EAGAIN", "EIO", "ENODEV"}

PointerNext ==
    \/ /\ pInfo["d1"].stage = "none"
       /\ \E pd \in PointerProfiles : PreInit("d1", pd, NoOptions, FALSE)
    \/ DeviceInit("d1")
    \/ DeviceOn("d1")
    \/ DeviceOff("d1")
    \/ /\ pInfo["d1"].stage = "on"
       /\ \E ev \in PointerEvents("d1") : EmitPointer("d1", ev)
    \/ \E rc \in DispatchResults : ReadInput(rc)

SpecPointer == Init /\ [][PointerNext]_vars

\* the consumer calls of the last dispatch made for scroll events of a
\* source
AxisCalls(sources) ==
    {k \in 1..Len(posted) : /\ posted[k].from.type = "POINTER_AXIS"
                            /\ posted[k].from.source \in sources}

(***************************************************************************)
(* C22: for a scroll event of a wheel reporting the discrete count N on an *)
(* axis whose step distance is S, the delta forwarded on that axis is      *)
(* N * S, for the vertical axis (valuator 3) and the horizontal axis       *)
(* (valuator 2) each on its own, and the same for every repetition of the  *)
(* event; for the finger and continuous sources the reported delta is      *)
(* forwarded as it is.  Axes the event does not have are not forwarded.    *)
(***************************************************************************)
C22_WheelDeltaIsCountTimesStep ==
    /\ \A k \in AxisCalls({"WHEEL"}) :
          LET c == posted[k]
              S == driver_data[c.dev].scroll
          IN /\ c.call = "motion" /\ c.mode = "Relative"
             /\ (3 \in DOMAIN c.mask) = c.from.has_v
             /\ (2 \in DOMAIN c.mask) = c.from.has_h
             /\ c.from.has_v => c.mask[3] = c.from.dv * S.vdist
             /\ c.from.has_h => c.mask[2] = c.from.dh * S.hdist
    /\ \A k \in AxisCalls({"FINGER", "CONTINUOUS"}) :
          LET c == posted[k]
          IN /\ c.from.has_v => c.mask[3] = c.from.v
             /\ c.from.has_h => c.mask[2] = c.from.h
    /\ \A k, l \in AxisCalls({"WHEEL", "FINGER", "CONTINUOUS"}) :
          posted[k].from = posted[l].from => posted[k].mask = posted[l].mask

\* one dispatch forwarded the same wheel event twice, two notches each
C22_Witness ==
    /\ Len(posted) = 2
    /\ posted[1].from = posted[2].from
    /\ posted[1].from.type = "POINTER_AXIS"
    /\ posted[1].from.source = "WHEEL"
    /\ posted[1].from.dv = 2
    /\ posted[2].mask[3] = 2 * SCROLL_DIST


\* the consumer calls of the last dispatch made for absolute motion events
AbsCalls(calls) ==
    {k \in 1..Len(calls) : calls[k].from.type = "POINTER_MOTION_ABSOLUTE"}

\* the queued absolute motion events of a device instance that is still
\* attached, of devices that are on and have the absolute flag
AbsForwardable(q) ==
    {i \in 1..Len(q) : /\ q[i].type = "POINTER_MOTION_ABSOLUTE"
                       /\ ~q[i].stale
                       /\ pInfo[q[i].dev].on
                       /\ driver_data[q[i].dev].has_abs}

\* the device has been through DEVICE_INIT
Initialised(d) == pInfo[d].stage \in {"init", "on", "off"}

(***************************************************************************)
(* C23: an absolute motion event is forwarded, as an absolute motion call, *)
(* only when the absolute flag of its device is set; the flag is set at    *)
(* initialisation exactly for the devices that have the pointer            *)
(* capability, support calibration and do not support acceleration; an     *)
(* absolute motion event of any other device is discarded without a        *)
(* consumer call; the flag does not change when the device is enabled or   *)
(* disabled.                                                               *)
(***************************************************************************)
C23_AbsoluteOnlyWithFlag ==
    /\ [](\A k \in AbsCalls(posted) :
            /\ driver_data[posted[k].dev].has_abs
            /\ posted[k].call = "motion"
            /\ posted[k].mode = "Absolute")
    /\ [](\A d \in Devs :
            Initialised(d) =>
                (driver_data[d].has_abs <=>
                    (/\ pInfo[d].pd.cap_pointer
                     /\ pInfo[d].pd.calib
                     /\ ~pInfo[d].pd.accel)))
    /\ [][(lastcall'.kind = "read" /\ lastcall'.rc = "ok") =>
            Cardinality(AbsCalls(posted')) =
                Cardinality(AbsForwardable(queue))]_vars
    /\ [][\A d \in Devs :
            (Initialised(d) /\ Initialised(d)') =>
                driver_data'[d].has_abs = driver_data[d].has_abs]_vars

\* an absolute motion event of a device with the flag was forwarded
C23_Witness ==
    /\ Len(posted) = 1
    /\ posted[1].from.type = "POINTER_MOTION_ABSOLUTE"
    /\ posted[1].mode = "Absolute"
    /\ posted[1].mask = (0 :> 5) @@ (1 :> 7)
    /\ driver_data["d1"].has_abs
    /\ lastcall.kind = "read"

\* the results of the dispatch read that are not a success: no data yet,
\* a read error, the end of the stream
FailedReads == {"EAGAIN", "EIO", "ENODEV"}

(***************************************************************************)
(* C24: when the dispatch read reports "no data yet" or an error, no       *)
(* queued event is translated in that cycle (the queue is as it was and no *)
(* consumer call is made), no driver state changes, and every enabled      *)
(* device stays enabled.                                                   *)
(***************************************************************************)
C24_FailedReadChangesNothing ==
    [][(lastcall'.kind = "read" /\ lastcall'.rc \in FailedReads) =>
          /\ queue' = queue
          /\ posted' = <<>>
          /\ driver_data' = driver_data
          /\ handle' = handle
          /\ <<next_touchid, touchids, assigned, handed, contacts>>' =
                <<next_touchid, touchids, assigned, handed, contacts>>
          /\ <<libinput, device_enabled_count, server_fds, enabled_fds>>' =
                <<libinput, device_enabled_count, server_fds, enabled_fds>>
          /\ \A d \in Devs : pInfo[d].on => pInfo'[d].on]_vars

\* a read failed with an error while two events of an enabled device were
\* queued, and both are still queued
C24_Witness ==
    /\ lastcall.kind = "read"
    /\ lastcall.rc = "EIO"
    /\ Len(queue) = 2
    /\ \A i \in 1..2 : ~queue[i].stale /\ pInfo[queue[i].dev].on
    /\ posted = <<>>

(***************************************************************************)
(* C25: when the dispatch read reports the end of the stream, the device   *)
(* is disabled: it leaves the enabled state, unlike for any other read     *)
(* error.                                                                  *)
(***************************************************************************)
C25_EndOfStreamDisables ==
    [][(lastcall'.kind = "read" /\ lastcall'.rc = "ENODEV") =>
          \E d \in Devs : pInfo[d].on /\ ~pInfo'[d].on]_vars

(***************************************************************************)
(* The open specification: two devices opened, the open succeeding or      *)
(* failing at each of its steps, initialised and uninitialised             *)
(***************************************************************************)
OpenNext ==
    \/ \E d \in Devs, pd \in {MouseDevice, KeyboardDevice}, sfd \in BOOLEAN :
          PreInit(d, pd, NoOptions, sfd)
    \/ \E d \in Devs, why \in {"valuators", "nopath", "add_device"},
          sfd \in BOOLEAN :
          PreInitFail(d, why, sfd)
    \/ \E d \in Devs, why \in {"calloc", "context"}, sfd \in BOOLEAN,
          returned \in BOOLEAN :
          PreInitNullAccess(d, why, sfd, returned)
    \/ \E d \in Devs : DeviceInit(d)
    \/ \E d \in Devs : UnInit(d)

SpecOpen == Init /\ [][OpenNext]_vars

\* the number of bindings of a descriptor in a registry
BindingsOf(fds, fd) == Cardinality({i \in 1..Len(fds) : fds[i].fd = fd})

(***************************************************************************)
(* C26: when the open of the device fails at any step of pre-init (the     *)
(* allocation of the state, the missing device path, the creation of the   *)
(* context, the attaching of the device), pre-init returns BadValue        *)
(* without an access to state that was never allocated, the device is left *)
(* unattached, and the attempt leaves no binding in the registry.          *)
(***************************************************************************)
C26_FailedOpenIsClean ==
    [][lastcall'.kind = "pre_init" =>
          LET d == lastcall'.dev
          IN /\ lastcall'.returned
             /\ lastcall'.rc = BadValue
             /\ ~lastcall'.null_access
             /\ ~pInfo'[d].private
             /\ ~handle'[d].added
             /\ driver_data'[d].device = "NULL"
             /\ \A e \in Devs :
                   BindingsOf(server_fds', ServerFdOf(e)) <=
                      BindingsOf(server_fds, ServerFdOf(e))]_vars

\* the default companion of a writable property
DefaultCompanion ==
    [a \in WritableAtoms |->
        CASE a = "prop_sendevents_enabled" -> "prop_sendevents_default"
          [] a = "prop_scroll_method_enabled" -> "prop_scroll_method_default"
          [] a = "prop_click_method_enabled" -> "prop_click_method_default"
          [] OTHER -> a \o "_default"]

\* the items by which the current-value property of an option shows the
\* value v of the device: one item, the matrix with its last row, one BOOL
\* for each method or mode with the one of v set, the button in the
\* consumer's numbering
ItemsOfValue(atom, v) ==
    CASE atom = "prop_calibration" -> v \o <<0, 0, 2>>
      [] atom = "prop_sendevents_enabled" ->
            <<IF v = LIBINPUT_CONFIG_SEND_EVENTS_DISABLED THEN 1 ELSE 0,
              IF v = LIBINPUT_CONFIG_SEND_EVENTS_DISABLED_ON_EXTERNAL_MOUSE
              THEN 1 ELSE 0>>
      [] atom = "prop_scroll_method_enabled" ->
            <<IF v = LIBINPUT_CONFIG_SCROLL_2FG THEN 1 ELSE 0,
              IF v = LIBINPUT_CONFIG_SCROLL_EDGE THEN 1 ELSE 0,
              IF v = LIBINPUT_CONFIG_SCROLL_ON_BUTTON_DOWN THEN 1 ELSE 0>>
      [] atom = "prop_click_method_enabled" ->
            <<IF v = LIBINPUT_CONFIG_CLICK_METHOD_BUTTON_AREAS THEN 1 ELSE 0,
              IF v = LIBINPUT_CONFIG_CLICK_METHOD_CLICKFINGER THEN 1 ELSE 0>>
      [] atom = "prop_scroll_button" -> <<btn_linux2xorg(v)>>
      [] OTHER -> <<v>>

(***************************************************************************)
(* C27: for every writable property made at initialisation, the read-only  *)
(* default companion is made as well, with the format and the type of the  *)
(* current-value property, and its value is the factory default of the     *)
(* device for that same option in the representation of the current-value  *)
(* property: the default of tap drag lock is the drag lock default, the    *)
(* default scroll button is in the consumer's button numbering.            *)
(***************************************************************************)
C27_DefaultCompanions ==
    \A d \in Devs :
        pInfo[d].stage = "init" =>
            \A a \in WritableAtoms \cap DOMAIN pInfo[d].props :
                LET props == pInfo[d].props
                    c == DefaultCompanion[a]
                IN /\ c \in DOMAIN props
                   /\ props[c].format = props[a].format
                   /\ props[c].type = props[a].type
                   /\ props[c].data =
                         ItemsOfValue(a, pInfo[d].pd.dflt[PropertyOption[a]])

(***************************************************************************)
(* The button specification: one mouse, enabled and disabled at will, its  *)
(* button events queued and dispatched                                     *)
(***************************************************************************)
ButtonNext ==
    \/ PreInit("d1", MouseDevice, NoOptions, FALSE)
    \/ DeviceInit("d1")
    \/ DeviceOn("d1")
    \/ DeviceOff("d1")
    \/ /\ pInfo["d1"].stage = "on"
       /\ \E ev \in ButtonEvents("d1") : EmitPointer("d1", ev)
    \/ \E rc \in {"ok", "EAGAIN"} : ReadInput(rc)

SpecButton == Init /\ [][ButtonNext]_vars

\* the consumer calls of the last dispatch made for button events
ButtonCalls == {k \in 1..Len(posted) : posted[k].from.type = "POINTER_BUTTON"}

\* the device codes with a consumer button of their own
NamedButtons == {0, BTN_LEFT, BTN_MIDDLE, BTN_RIGHT}

(***************************************************************************)
(* C28: a button event with the device code c is forwarded with the        *)
(* consumer button 0 for c = 0, 1 for the left, 2 for the middle and 3 for *)
(* the right button and 8 + (c - BTN_SIDE) for every other code, pressed   *)
(* or released as the event is; no code other than 0, left, middle and     *)
(* right is forwarded as one of the consumer buttons 0..3.                 *)
(***************************************************************************)
C28_ButtonNumbering ==
    \A k \in ButtonCalls :
        LET c == posted[k].from.button
        IN /\ posted[k].call = "button"
           /\ posted[k].is_press = (posted[k].from.state = "PRESSED")
           /\ c = 0 => posted[k].button = 0
           /\ c = BTN_LEFT => posted[k].button = 1
           /\ c = BTN_MIDDLE => posted[k].button = 2
           /\ c = BTN_RIGHT => posted[k].button = 3
           /\ c \notin NamedButtons =>
                 /\ posted[k].button = 8 + (c - BTN_SIDE)
                 /\ posted[k].button \notin 0..3

(***************************************************************************)
(* The ButtonMapping option.  An option text is a sequence of characters;  *)
(* a position past its end is the terminating NUL.                         *)
(***************************************************************************)
Digits == {"1", "3"}
MapChars == Digits \cup {" ", ",", "x"}

DigitValue(c) == IF c = "1" THEN 1 ELSE 3

\* init_button_map: btnmap[i] = i
init_button_map == [i \in 0..MAX_BUTTONS |-> i]

\* the first position from pos on that does not hold a character of set
RECURSIVE SkipChars(_, _, _)
SkipChars(str, pos, set) ==
    IF pos <= Len(str) /\ str[pos] \in set
    THEN SkipChars(str, pos + 1, set)
    ELSE pos

\* the decimal value of the digits at the positions from..(to - 1)
RECURSIVE DecimalValue(_, _, _)
DecimalValue(str, from, to) ==
    IF from >= to THEN 0
    ELSE DecimalValue(str, from, to - 1) * 10 + DigitValue(str[to - 1])

\* strtoul(map, &s, 10): white space is skipped, then the digits are read;
\* without a digit nothing is converted and s is map
strtoul(str, pos) ==
    LET first == SkipChars(str, pos, {" "})
        end == SkipChars(str, first, Digits)
    IN IF end = first THEN [v |-> 0, s |-> pos]
       ELSE [v |-> DecimalValue(str, first, end), s |-> end]

MAXBUTTONS == 32

\* the do-while loop of xf86libinput_parse_buttonmap_option
RECURSIVE ButtonmapLoop(_, _, _, _)
ButtonmapLoop(str, map, idx, btnmap) ==
    LET r == strtoul(str, map)
    IN IF r.s = map \/ r.v > MAXBUTTONS
       THEN init_button_map
       ELSE LET written == [btnmap EXCEPT ![idx] = r.v]
            IN IF r.s <= Len(str) /\ idx + 1 < MAXBUTTONS
               THEN ButtonmapLoop(str, r.s, idx + 1, written)
               ELSE written

\* xf86libinput_parse_buttonmap_option; mapping is <<>> without the option
\* and <<text>> with it
xf86libinput_parse_buttonmap_option(mapping) ==
    IF mapping = <<>> THEN init_button_map
    ELSE ButtonmapLoop(mapping[1], 1, 1, init_button_map)

\* the option texts of the model
RECURSIVE TextsOfLen(_)
TextsOfLen(n) ==
    IF n = 0 THEN {<<>>}
    ELSE {Append(t, c) : t \in TextsOfLen(n - 1), c \in MapChars}

MappingTexts == UNION {TextsOfLen(n) : n \in 0..MaxMapLen}

\* the option resolver reads the ButtonMapping option of a configuration,
\* once
ParseButtonmap(mapping) ==
    /\ lastcall = NoCall
    /\ lastcall' = [kind |-> "buttonmap", mapping |-> mapping,
                    btnmap |-> xf86libinput_parse_buttonmap_option(mapping)]
    /\ UNCHANGED <<posted, contacts, nwrites, uaf>>
    /\ UNCHANGED event_vars
    /\ UNCHANGED lifecycle_vars

ButtonMapNext ==
    \/ ParseButtonmap(<<>>)
    \/ \E text \in MappingTexts : ParseButtonmap(<<text>>)

SpecButtonMap == Init /\ [][ButtonMapNext]_vars

\* the tokens of a text delimited by commas and spaces, from pos on
RECURSIVE Tokens(_, _)
Tokens(str, pos) ==
    LET first == SkipChars(str, pos, {" ", ","})
        end == SkipChars(str, first, MapChars \ {" ", ","})
    IN IF first > Len(str) THEN <<>>
       ELSE <<SubSeq(str, first, end - 1)>> \o Tokens(str, end)

\* the token is a number
Numeric(tok) == \A i \in 1..Len(tok) : tok[i] \in Digits

\* the text is malformed: a token is not a number or is above 32
Malformed(toks) ==
    \E k \in 1..Len(toks) :
        \/ ~Numeric(toks[k])
        \/ DecimalValue(toks[k], 1, Len(toks[k]) + 1) > 32

(***************************************************************************)
(* C29: parsing the ButtonMapping option yields the identity table when    *)
(* the option is absent or malformed (a token that is not a number, or a   *)
(* value above 32, discards everything parsed so far), and otherwise the   *)
(* table whose entry k, counted from 1, is the k-th integer of the list    *)
(* and whose other entries are the identity; comma and space both delimit  *)
(* the integers; entry 0 is never changed.                                 *)
(***************************************************************************)
C29_ButtonmapParsed ==
    lastcall.kind = "buttonmap" =>
        LET toks == IF lastcall.mapping = <<>> THEN <<>>
                    ELSE Tokens(lastcall.mapping[1], 1)
            btnmap == lastcall.btnmap
        IN /\ btnmap[0] = 0
           /\ (lastcall.mapping = <<>> \/ Malformed(toks)) =>
                 btnmap = [i \in 0..MAX_BUTTONS |-> i]
           /\ ~Malformed(toks) =>
                 \A k \in 1..MAX_BUTTONS :
                    btnmap[k] =
                       IF k <= Len(toks)
                       THEN DecimalValue(toks[k], 1, Len(toks[k]) + 1)
                       ELSE k

(***************************************************************************)
(* C30: when a device that uses a descriptor of the server is disabled,    *)
(* the binding its enable added to the registry is removed, so that after  *)
(* an enable followed by a disable the registry is what it was before the  *)
(* enable: the step that disables the device takes one binding of the      *)
(* device's descriptor out of the registry and leaves the others.          *)
(***************************************************************************)
C30_DisableRemovesBinding ==
    [][\A d \in Devs :
          (pInfo[d].on /\ ~pInfo'[d].on /\ pInfo[d].server_fd) =>
              /\ BindingsOf(server_fds', ServerFdOf(d)) =
                    BindingsOf(server_fds, ServerFdOf(d)) - 1
              /\ Len(server_fds') = Len(server_fds) - 1]_vars

(***************************************************************************)
(* Requests between DEVICE_INIT and the first DEVICE_ON.  xf86libinput_init *)
(* drops the only reference on the handle and leaves driver_data->device   *)
(* pointing to it, so a handler that passes xf86libinput_check_device goes *)
(* on to read the freed handle.  The read is undefined: it sees the handle *)
(* as it was ("intact"), sees a handle without any capability ("garbage"), *)
(* or ends the server ("fault").                                           *)
(***************************************************************************)
\* the handler of the request goes as far as the device: with a null
\* device it is stopped by xf86libinput_check_device, with a device of
\* every capability it is not
ReachesDevice(dd, cfg, atom, val) ==
    LibinputSetProperty([dd EXCEPT !.device = "NULL"], cfg, FullDevice,
                        atom, val, TRUE).rc
    # LibinputSetProperty([dd EXCEPT !.device = "ptr"], cfg, FullDevice,
                          atom, val, TRUE).rc

\* no device of the terminated server is left in any stage
ServerGone == [e \in Devs |-> [pInfo[e] EXCEPT !.stage = "gone"]]

\* LibinputSetProperty(dev, atom, val, TRUE) of a device whose handle was
\* freed
PropertyCheckFreed(d, atom, val, seen) ==
    /\ pInfo[d].stage = "init"
    /\ Dangling(d)
    /\ nwrites < MaxWrites
    /\ LET reaches == ReachesDevice(driver_data[d], handle[d].cfg, atom, val)
           pd == IF seen = "intact" THEN pInfo[d].pd ELSE BareDevice
           r == LibinputSetProperty(driver_data[d], handle[d].cfg, pd,
                                    atom, val, TRUE)
       IN /\ seen # "intact" => reaches
          /\ uaf' = (uaf \/ reaches)
          /\ IF seen = "fault"
             THEN /\ pInfo' = ServerGone
                  /\ lastcall' = [kind |-> "fault", dev |-> d, atom |-> atom,
                                  val |-> val, checkonly |-> TRUE]
                  /\ UNCHANGED <<driver_data, handle>>
             ELSE /\ driver_data' = [driver_data EXCEPT
                                        ![d].options = r.options]
                  /\ handle' = [handle EXCEPT ![d].cfg = r.cfg]
                  /\ lastcall' = [kind |-> "check", dev |-> d, atom |-> atom,
                                  val |-> val, rc |-> r.rc,
                                  applied |-> r.applied]
                  /\ UNCHANGED pInfo
    /\ nwrites' = nwrites + 1
    /\ posted' = <<>>
    /\ UNCHANGED <<libinput, device_enabled_count, server_fds, enabled_fds>>
    /\ UNCHANGED event_vars

\* LibinputSetProperty(dev, atom, val, FALSE) after the accepted check, the
\* Configuration Applier ending the server on the freed handle
PropertyCommitFault(d) ==
    /\ lastcall.kind = "check"
    /\ lastcall.dev = d
    /\ lastcall.rc = Success
    /\ lastcall.atom \in WritableAtoms
    /\ Dangling(d)
    /\ pInfo' = ServerGone
    /\ lastcall' = [kind |-> "fault", dev |-> d, atom |-> lastcall.atom,
                    val |-> lastcall.val, checkonly |-> FALSE]
    /\ uaf' = TRUE
    /\ posted' = <<>>
    /\ UNCHANGED <<libinput, device_enabled_count, server_fds, enabled_fds,
                   driver_data, handle, nwrites>>
    /\ UNCHANGED event_vars

\* the requests of the model: the disabled value for each writable
\* property, tapping on, and a tapping request of the wrong format
FreedRequests ==
    DisabledRequests
    \cup {<<"prop_tap", Val(8, "XA_INTEGER", <<1>>)>>,
          <<"prop_tap", Val(32, "XA_INTEGER", <<1>>)>>}

(***************************************************************************)
(* The request specification: one device opened, initialised, enabled      *)
(* (succeeding or failing) and disabled, with property requests at every   *)
(* stage from DEVICE_INIT on                                               *)
(***************************************************************************)
FreedNext ==
    \/ /\ pInfo["d1"].stage = "none"
       /\ \E pd \in {FullDevice, MouseDevice} :
             PreInit("d1", pd, NoOptions, FALSE)
    \/ DeviceInit("d1")
    \/ DeviceOn("d1")
    \/ DeviceOnFail("d1")
    \/ DeviceOff("d1")
    \/ /\ nwrites < MaxWrites
       /\ \E rq \in FreedRequests : PropertyCheck("d1", rq[1], rq[2])
    \/ /\ nwrites < MaxWrites
       /\ pInfo["d1"].stage = "init"
       /\ \E rq \in FreedRequests, seen \in {"intact", "garbage", "fault"} :
             PropertyCheckFreed("d1", rq[1], rq[2], seen)
    \/ PropertyCommit("d1")
    \/ PropertyCommitFault("d1")

SpecFreed == Init /\ [][FreedNext]_vars

(***************************************************************************)
(* C31: whenever the stored device handle is not null and a property       *)
(* check, the Configuration Applier or the LED control can reach it (from  *)
(* DEVICE_INIT on), the driver holds at least one reference on the handle: *)
(* also between DEVICE_INIT and the first enable, and after an enable that *)
(* failed.                                                                 *)
(***************************************************************************)
C31_StoredHandleReferenced ==
    \A d \in Devs :
        (pInfo[d].stage \in {"init", "on", "off"}
         /\ driver_data[d].device # "NULL") => handle[d].refs >= 1

(***************************************************************************)
(* C32: a property check of a device that is not enabled (initialised and  *)
(* never enabled, or disabled after an enable) is rejected, so that no     *)
(* property write changes the OptionSet or invokes the Configuration       *)
(* Applier while the device is not enabled.                                *)
(***************************************************************************)
C32_NoWriteWhileDisabled ==
    [][\A d \in Devs :
          (/\ lastcall'.kind \in {"check", "commit"}
           /\ lastcall'.dev = d
           /\ lastcall'.atom \in WritableAtoms
           /\ ~pInfo[d].on)
          => /\ lastcall'.kind = "check"
             /\ lastcall'.rc # Success
             /\ ~lastcall'.applied
             /\ driver_data'[d].options = driver_data[d].options]_vars

(***************************************************************************)
(* The slot specification: one touch device, enabled once, whose events    *)
(* carry the slots                                                         *)
(* libinput_event_touch_get_slot can return: -1 (a single-touch device),   *)
(* the first and the last index of the table, and the first value past it  *)
(***************************************************************************)
SlotValues == {-1, 0, TOUCH_MAX_SLOTS - 1, TOUCH_MAX_SLOTS}

\* what a read outside the table finds: the identity of the first touch or
\* of the second
MemValues == {0, 1}

\* the event source queues a touch event with the slot as libinput reports
\* it; mem and clobber are what the access outside the table meets
EmitTouchAt(d, type, slot, mem, clobber) ==
    /\ pInfo[d].stage = "on"
    /\ pInfo[d].pd.cap_touch
    /\ Len(queue) < MaxQueue
    /\ InTable(slot) => (mem = 0 /\ ~clobber)
    /\ type # "TOUCH_DOWN" => ~clobber
    /\ IF type = "TOUCH_DOWN"
       THEN /\ slot \notin contacts[d]
            /\ Len(handed) + QueuedDowns < MaxTouchId
       ELSE slot \in contacts[d]
    /\ queue' = Append(queue,
                       [dev |-> d, stale |-> FALSE, type |-> type,
                        slot |-> slot, mem |-> mem, clobber |-> clobber])
    /\ contacts' = [contacts EXCEPT ![d] =
                      CASE type = "TOUCH_DOWN" -> contacts[d] \cup {slot}
                        [] type = "TOUCH_UP" -> contacts[d] \ {slot}
                        [] OTHER -> contacts[d]]
    /\ lastcall' = NoCall
    /\ posted' = <<>>
    /\ UNCHANGED <<nwrites, uaf>>
    /\ UNCHANGED translate_vars
    /\ UNCHANGED lifecycle_vars

SlotsNext ==
    \/ PreInit("d1", TouchscreenDevice, NoOptions, FALSE)
    \/ DeviceInit("d1")
    \/ DeviceOn("d1")
    \/ /\ pInfo["d1"].stage = "on"
       /\ \E t \in {"TOUCH_DOWN", "TOUCH_UP", "TOUCH_MOTION"},
             s \in SlotValues, mem \in MemValues, clobber \in BOOLEAN :
             EmitTouchAt("d1", t, s, mem, clobber)
    \/ ReadInput("ok")

SpecSlots == Init /\ [][SlotsNext]_vars

(***************************************************************************)
(* C33: every read or write of the slot-to-identity table uses an index    *)
(* within 0..14 (the table has 15 entries), for every slot value a touch   *)
(* event can carry: the "no slot" value -1 of single-touch devices and     *)
(* slots of 15 or more included.                                           *)
(***************************************************************************)
C33_TableIndexInRange ==
    \A i \in 1..Len(posted) :
        posted[i].call = "touch"
        => posted[i].index \in 0..(TOUCH_MAX_SLOTS - 1)

(***************************************************************************)
(* C34: every touch identity for which a touch-begin was forwarded is      *)
(* ended: when the device reports touch-up or touch-cancel for the slot,   *)
(* the dispatch forwards a touch-end carrying that identity.               *)
(***************************************************************************)
\* the queued events that close a touch open before the dispatch: the
\* first event of their slot in the queue, of a device that is on
ClosingEvents ==
    {i \in 1..Len(queue) :
        /\ queue[i].type \in {"TOUCH_UP", "TOUCH_CANCEL"}
        /\ ~queue[i].stale
        /\ pInfo[queue[i].dev].on
        /\ assigned[queue[i].dev][queue[i].slot] >= 0
        /\ \A j \in 1..(i - 1) :
              ~(queue[j].dev = queue[i].dev /\ queue[j].slot = queue[i].slot)}

C34_BegunTouchesEnd ==
    [][(lastcall'.kind = "read" /\ Dispatched(lastcall'.rc))
       => \A i \in ClosingEvents :
             \E k \in 1..Len(posted') :
                /\ posted'[k].call = "touch"
                /\ posted'[k].type = "XI_TouchEnd"
                /\ posted'[k].dev = queue[i].dev
                /\ posted'[k].id = assigned[queue[i].dev][queue[i].slot]]_vars

(***************************************************************************)
(* C35: if attaching the device to the shared event source fails during    *)
(* an enable, the enable returns failure and leaves the enabled count, the *)
(* readiness registration, the on flag, the descriptor field, the stored   *)
(* device handle and the Device Registry exactly as they were before the   *)
(* call.                                                                   *)
(***************************************************************************)
C35_FailedEnableChangesNothing ==
    [][\A d \in Devs :
          (lastcall'.kind = "on_failed" /\ lastcall'.dev = d)
          => /\ device_enabled_count' = device_enabled_count
             /\ enabled_fds' = enabled_fds
             /\ pInfo'[d].on = pInfo[d].on
             /\ pInfo'[d].fd = pInfo[d].fd
             /\ driver_data'[d].device = driver_data[d].device
             /\ server_fds' = server_fds]_vars

(***************************************************************************)
(* The button translation specification: btn_xorg2linux and btn_linux2xorg *)
(* applied one after the other to a consumer button number, as             *)
(* xf86libinput_parse_scrollbutton_option and LibinputApplyConfig do with  *)
(* the scroll button, and to a device code.  The numbers are unsigned ints *)
(* of 32 bits; the model keeps them as their signed representatives, and   *)
(* no sum of the numbers below leaves 32 bits.                             *)
(***************************************************************************)
\* consumer button numbers: those of the button map and the ones above
ConsumerButtons == 0..(2 * MAXBUTTONS)

\* device codes: BTN_0 (0x100) and the codes above
DeviceCodes == 256..(BTN_SIDE + 2 * MAXBUTTONS)

\* the scroll button of the OptionSet taken to the device and read back
TranslateButton(from, b) ==
    /\ lastcall = NoCall
    /\ lastcall' =
          IF from = "xorg"
          THEN [kind |-> "btn", from |-> from, b |-> b,
                there |-> btn_xorg2linux(b),
                back |-> btn_linux2xorg(btn_xorg2linux(b))]
          ELSE [kind |-> "btn", from |-> from, b |-> b,
                there |-> btn_linux2xorg(b),
                back |-> btn_xorg2linux(btn_linux2xorg(b))]
    /\ posted' = <<>>
    /\ UNCHANGED <<nwrites, uaf>>
    /\ UNCHANGED event_vars
    /\ UNCHANGED lifecycle_vars

RoundTripNext ==
    \/ \E b \in ConsumerButtons : TranslateButton("xorg", b)
    \/ \E b \in DeviceCodes : TranslateButton("linux", b)

SpecRoundTrip == Init /\ [][RoundTripNext]_vars

(***************************************************************************)
(* C36: a consumer button number translated to the device code and back    *)
(* is the same number, for every consumer button number, and a device code *)
(* translated to the consumer button number and back is the same code, for *)
(* every device code, in unsigned arithmetic of 32 bits: the scroll button *)
(* of the OptionSet and the button applied to the device are the same      *)
(* button.                                                                 *)
(***************************************************************************)
C36_ButtonRoundTrip ==
    lastcall.kind = "btn" => lastcall.back = lastcall.b

(***************************************************************************)
(* C37: the driver never closes a descriptor bound in the Device Registry. *)
(* open_restricted returns the descriptor of the registry whenever the     *)
(* path is bound (the one bound last for that path) and opens the path     *)
(* itself only when it is not; close_restricted closes only descriptors    *)
(* not found in the registry; so over the probing at open and every        *)
(* enable and disable a descriptor the server handed in is never closed.   *)
(***************************************************************************)
\* the descriptors the server handed in for the devices that use one
ServerDescriptors ==
    {ServerFdOf(e) : e \in {e \in Devs : pInfo[e].server_fd}}

\* the bindings of the path, the one bound last first
BoundTo(fds, path) == SelectSeq(fds, LAMBDA b : b.path = path)

C37_BoundDescriptorNeverClosed ==
    \A d \in Devs :
        pInfo[d].stage \in {"preinit", "init", "on", "off"} =>
            /\ handle[d].closed \notin ServerDescriptors
            /\ handle[d].closed # -1 =>
                  (~pInfo[d].server_fd /\ handle[d].closed = OpenedFd(d))
            /\ pInfo[d].stage = "on" =>
                  handle[d].fd = IF BoundTo(server_fds, PathOf(d)) = <<>>
                                 THEN OpenedFd(d)
                                 ELSE BoundTo(server_fds, PathOf(d))[1].fd

\* one device with a descriptor of the server and one without have been
\* enabled and disabled: the first's descriptor was left open, the second's
\* closed
C37_Witness ==
    \E d, e \in Devs :
        /\ pInfo[d].stage = "off" /\ pInfo[d].server_fd
        /\ handle[d].closed = -1
        /\ pInfo[e].stage = "off" /\ ~pInfo[e].server_fd
        /\ handle[e].closed = OpenedFd(e)

(***************************************************************************)
(* C38: the scroll-method default property made at initialisation has      *)
(* exactly the bit of the device's default scroll method set, and so at    *)
(* most one bit, whatever the scroll method enabled at the time.           *)
(***************************************************************************)
C38_ScrollDefaultOneBit ==
    \A d \in Devs :
        (/\ pInfo[d].stage \in {"init", "on", "off"}
         /\ "prop_scroll_method_default" \in DOMAIN pInfo[d].props)
        => LET data == pInfo[d].props["prop_scroll_method_default"].data
           IN /\ data = ItemsOfValue("prop_scroll_method_enabled",
                                     pInfo[d].pd.dflt.scroll_method)
              /\ Cardinality({k \in 1..Len(data) : data[k] # 0}) <= 1

(***************************************************************************)
(* C39: after the device initialisation each current-value property that   *)
(* was made equals the value of the OptionSet for its option, the scroll   *)
(* method and the click method included, also when the device refused the  *)
(* resolved value in the apply that precedes the making of the properties. *)
(***************************************************************************)
\* the items that show the OptionSet value v of a property: the scroll
\* button of the OptionSet is a consumer button number already, its matrix
\* has the nine items
ItemsOfOption(atom, v) ==
    CASE atom = "prop_scroll_button" -> <<v>>
      [] atom = "prop_calibration" -> v
      [] OTHER -> ItemsOfValue(atom, v)

C39_PropertiesShowOptionSet ==
    \A d \in Devs :
        pInfo[d].stage = "init" =>
            \A a \in WritableAtoms \cap DOMAIN pInfo[d].props :
                pInfo[d].props[a].data =
                    ItemsOfOption(a, driver_data[d].options[
                                        OptionField[PropertyOption[a]]])

(***************************************************************************)
(* The dispatch specification: one device with pointer and keyboard,       *)
(* enabled and disabled at will; motion, key and button events and the     *)
(* events xf86libinput_handle_event has no handler for are queued and      *)
(* dispatched                                                              *)
(***************************************************************************)
\* the event types whose case in xf86libinput_handle_event is a break
SilentTypes == {"NONE", "DEVICE_ADDED", "DEVICE_REMOVED", "TOUCH_FRAME"}

DispatchEvents(d) ==
    {[BaseEvent(d, "POINTER_MOTION") EXCEPT !.x = 1, !.y = -1],
     [BaseEvent(d, "KEYBOARD_KEY") EXCEPT !.key = 30, !.state = "PRESSED"],
     [BaseEvent(d, "POINTER_BUTTON") EXCEPT !.button = BTN_LEFT,
                                            !.state = "PRESSED"]}
    \cup {BaseEvent(d, t) : t \in SilentTypes}

DispatchNext ==
    \/ PreInit("d1", FullDevice, NoOptions, FALSE)
    \/ DeviceInit("d1")
    \/ DeviceOn("d1")
    \/ DeviceOff("d1")
    \/ /\ pInfo["d1"].stage = "on"
       /\ \E ev \in DispatchEvents("d1") : EmitPointer("d1", ev)
    \/ \E rc \in {"ok", "EAGAIN"} : ReadInput(rc)

SpecDispatch == Init /\ [][DispatchNext]_vars

(***************************************************************************)
(* C40: when the dispatch read succeeds, the loop translates every queued  *)
(* event exactly once, in the order of the queue, and returns with the     *)
(* queue empty: the consumer calls are those of the events of enabled      *)
(* devices, in the order of the events, and frame, device-added and        *)
(* device-removed events make no consumer call.                            *)
(***************************************************************************)
\* the queued events that make a consumer call, in the order of the queue
Translated(q) ==
    SelectSeq(q, LAMBDA e : /\ ~e.stale
                            /\ pInfo[e.dev].on
                            /\ e.type \notin SilentTypes)

C40_QueueTranslatedInOrder ==
    [][(lastcall'.kind = "read" /\ Dispatched(lastcall'.rc))
       => /\ queue' = <<>>
          /\ Len(posted') = Len(Translated(queue))
          /\ \A k \in 1..Len(posted') :
                posted'[k].from = Translated(queue)[k]]_vars

\* a dispatch has made the calls of two events of different types, one
\* after the other
C40_Witness ==
    /\ lastcall.kind = "read"
    /\ Dispatched(lastcall.rc)
    /\ queue = <<>>
    /\ Len(posted) = 2
    /\ posted[1].from.type # posted[2].from.type

=============================================================================
